---- MODULE Spec2Model ----
(***************************************************************************)
(* BeePlan timetable core: validate_config, build_atoms,                   *)
(* compute_initial_domains, sort_atoms_mrv, the backtracking search of     *)
(* generate (place), incremental_hard_violation and collect_violations.    *)
(*                                                                         *)
(* Data conventions.                                                       *)
(*   TimeSlot           record [day, index]                                *)
(*   Course             record; expected_students = None is written 0      *)
(*                      (constrains.py:36 tests its truthiness, so None    *)
(*                      and 0 behave alike)                                *)
(*   availability,      sets of TimeSlot (the code only iterates them and  *)
(*   forbidden_slots    turns them into sets of (day, index))              *)
(*   Python str order   StrRank, over the strings the configurations use   *)
(***************************************************************************)
EXTENDS Integers, Sequences, FiniteSets, TLC

\* ------------------------------------------------------------------ bounds
NumSlots == 2
MaxTheory == 2
SmallStepLimit == 4
MaxPlacements == 3
EvalSlots == 4

\* --------------------------------------------------------- program constants
DefaultStepLimit == 300000
DefaultMaxDailyTheory == 4
LabCapacityCap == 40

\* ------------------------------------------------------------ generic helpers
Range(s) == {s[i] : i \in 1..Len(s)}

Rep(x, n) == [i \in 1..n |-> x]

RECURSIVE Concat(_)
Concat(ss) == IF ss = <<>> THEN <<>> ELSE Head(ss) \o Concat(Tail(ss))

\* first occurrences of the elements of s, in order (insertion order of a dict)
RECURSIVE Dedup(_)
Dedup(s) ==
    IF s = <<>> THEN <<>>
    ELSE LET r == Dedup(SubSeq(s, 1, Len(s) - 1))
             x == s[Len(s)]
         IN IF x \in Range(r) THEN r ELSE Append(r, x)

\* tuple comparison of Python, on integer tuples of equal length
RECURSIVE LexLess(_, _)
LexLess(a, b) ==
    IF a = <<>> THEN FALSE
    ELSE IF Head(a) < Head(b) THEN TRUE
    ELSE IF Head(a) > Head(b) THEN FALSE
    ELSE LexLess(Tail(a), Tail(b))

\* Python's sorted(s, key=...): stable and ascending, keys[i] being the key
\* tuple of s[i]
StableSort(s, keys) ==
    LET n == Len(s)
        rank(i) == Cardinality({j \in 1..n :
                        \/ LexLess(keys[j], keys[i])
                        \/ (~LexLess(keys[i], keys[j]) /\ j < i)}) + 1
    IN [r \in 1..n |-> s[CHOOSE i \in 1..n : rank(i) = r]]

\* str comparison of Python restricted to the day names and room ids in use
StrOrder == <<"Fri", "L1", "Mon", "R1", "R2", "Thu", "Tue", "Wed">>
StrRank(s) == CHOOSE i \in 1..Len(StrOrder) : StrOrder[i] = s

\* week ordinal Mon=0..Fri=4
DayOrdinal(d) ==
    CASE d = "Mon" -> 0 [] d = "Tue" -> 1 [] d = "Wed" -> 2
      [] d = "Thu" -> 3 [] d = "Fri" -> 4

TimeSlot(d, i) == [day |-> d, index |-> i]

\* ------------------------------------------------------------- configurations
Course(id, year, required, th, lab, ins, program, expected) ==
    [id |-> id, year |-> year, required |-> required,
     weekly_theory_hours |-> th, weekly_lab_hours |-> lab,
     instructor_id |-> ins, program |-> program,
     prefer_consecutive_lab |-> TRUE, expected_students |-> expected]

Instructor(id, name, availability, cap) ==
    [id |-> id, name |-> name, availability |-> availability,
     max_daily_theory_hours |-> cap]

Room(id, capacity, type) == [id |-> id, capacity |-> capacity, type |-> type]

BeePlanConfig(days, spd, forbidden, courses, instructors, rooms) ==
    [common |-> [days |-> days, slots_per_day |-> spd, forbidden_slots |-> forbidden],
     courses |-> courses, instructors |-> instructors, rooms |-> rooms]

GridDays == <<"Mon", "Fri">>
Grid == {TimeSlot(GridDays[d], i) : d \in 1..Len(GridDays), i \in 1..NumSlots}

\* (year, required, program)
Profiles == {<<3, TRUE, "CENG">>, <<2, FALSE, "CENG">>,
             <<4, FALSE, "SENG">>, <<2, TRUE, "SENG">>}
FirstProfiles == {<<3, TRUE, "CENG">>, <<2, FALSE, "CENG">>}

FirstCourses ==
    {Course("C1", p[1], p[2], th, lab, "I1", p[3], ex) :
        p \in FirstProfiles, th \in 0..MaxTheory, lab \in {0, 1}, ex \in {0, 40}}

SecondCourses ==
    {Course("C2", p[1], p[2], th, 0, ins, p[3], 0) :
        p \in Profiles, th \in 1..MaxTheory, ins \in {"I1", "I2"}}

CourseLists ==
    {<<c>> : c \in FirstCourses}
        \cup {<<c1, c2>> : c1 \in FirstCourses, c2 \in SecondCourses}

ForbiddenChoices == {{}, {TimeSlot("Fri", 1)}}

FirstInstructors ==
    {Instructor("I1", "Ada", Grid, DefaultMaxDailyTheory),
     Instructor("I1", "Ada",
                {TimeSlot("Fri", i) : i \in 1..NumSlots} \cup {TimeSlot("Mon", NumSlots)}, 1),
     Instructor("I1", "Ada", {TimeSlot("Mon", NumSlots), TimeSlot("Fri", 1)},
                DefaultMaxDailyTheory)}

SecondInstructor == Instructor("I2", "Bob", Grid, DefaultMaxDailyTheory)

RoomLists ==
    {<<Room("R1", 30, "theory"), Room("L1", 40, "lab")>>,
     <<Room("R1", 50, "theory"), Room("R2", 30, "theory"), Room("L1", 60, "lab")>>,
     <<Room("R1", 30, "theory"), Room("R2", 50, "theory")>>}

ValidConfigs ==
    {BeePlanConfig(GridDays, NumSlots, f, cs, <<i1, SecondInstructor>>, rs) :
        f \in ForbiddenChoices, cs \in CourseLists,
        i1 \in FirstInstructors, rs \in RoomLists}

\* configurations of one course, also with an instructor available in a
\* single slot and with a single theory room
OneSlotInstructor == Instructor("I1", "Ada", {TimeSlot("Fri", 1)}, DefaultMaxDailyTheory)
SingleRoom == <<Room("R1", 50, "theory")>>

SingleCourseConfigs ==
    {BeePlanConfig(GridDays, NumSlots, f, <<c>>, <<i1, SecondInstructor>>, rs) :
        f \in ForbiddenChoices, c \in FirstCourses,
        i1 \in FirstInstructors \cup {OneSlotInstructor},
        rs \in RoomLists \cup {SingleRoom}}

\* configurations of two courses in which the first course fits one slot only,
\* so that the search has to move the course it placed before
BacktrackConfigs ==
    {BeePlanConfig(GridDays, NumSlots, {},
                   <<Course("C1", 2, FALSE, 1, 0, "I1", "CENG", 40), c2>>,
                   <<OneSlotInstructor, SecondInstructor>>,
                   <<Room("R1", 30, "theory")>>) :
        c2 \in {c \in SecondCourses : c.instructor_id = "I2"}}

BaseCourse == Course("C1", 3, TRUE, 1, 0, "I1", "CENG", 0)
BaseInstructor == Instructor("I1", "Ada", Grid, DefaultMaxDailyTheory)
BaseRooms == <<Room("R1", 30, "theory")>>

InvalidConfigs ==
    {BeePlanConfig(<<>>, NumSlots, {}, <<BaseCourse>>, <<BaseInstructor>>, BaseRooms),
     BeePlanConfig(GridDays, 0, {}, <<BaseCourse>>, <<BaseInstructor>>, BaseRooms),
     BeePlanConfig(GridDays, NumSlots, {}, <<BaseCourse, BaseCourse>>,
                   <<BaseInstructor>>, BaseRooms),
     BeePlanConfig(GridDays, NumSlots, {},
                   <<Course("C1", 5, TRUE, 1, 0, "I1", "CENG", 0)>>,
                   <<BaseInstructor>>, BaseRooms),
     BeePlanConfig(GridDays, NumSlots, {},
                   <<Course("C1", 3, TRUE, 1, 0, "I9", "CENG", 0)>>,
                   <<BaseInstructor>>, BaseRooms),
     BeePlanConfig(GridDays, NumSlots, {}, <<BaseCourse>>,
                   <<Instructor("I1", "Ada", {}, DefaultMaxDailyTheory)>>, BaseRooms),
     BeePlanConfig(GridDays, NumSlots, {}, <<BaseCourse>>,
                   <<Instructor("I1", "Ada", {TimeSlot("Mon", NumSlots + 1)},
                                DefaultMaxDailyTheory)>>, BaseRooms),
     BeePlanConfig(GridDays, NumSlots, {TimeSlot("Tue", 1)}, <<BaseCourse>>,
                   <<BaseInstructor>>, BaseRooms),
     BeePlanConfig(GridDays, NumSlots, {}, <<BaseCourse>>, <<BaseInstructor>>,
                   <<Room("R1", 0, "theory")>>)}

\* configurations that repeat an instructor id or a room id
DuplicateIdConfigs ==
    {BeePlanConfig(GridDays, NumSlots, {}, <<BaseCourse>>,
                   <<BaseInstructor,
                     Instructor("I1", "Eve", {TimeSlot("Fri", 1)}, DefaultMaxDailyTheory)>>,
                   BaseRooms),
     BeePlanConfig(GridDays, NumSlots, {}, <<BaseCourse>>, <<BaseInstructor>>,
                   <<Room("R1", 30, "theory"), Room("R1", 50, "theory")>>)}

\* a configuration whose instructor has a negative max_daily_theory_hours
NegativeCapConfigs ==
    {BeePlanConfig(GridDays, NumSlots, {}, <<BaseCourse>>,
                   <<Instructor("I1", "Ada", Grid, 0 - 1)>>, BaseRooms)}

\* a configuration whose instructor may teach no theory hour on any day
ZeroCapConfigs ==
    {BeePlanConfig(GridDays, NumSlots, {}, <<BaseCourse>>,
                   <<Instructor("I1", "Ada", Grid, 0)>>, BaseRooms)}

\* a configuration that lists its courses in descending id order, the two
\* courses alike in everything the ordering of the atoms looks at
DescendingIdConfigs ==
    {BeePlanConfig(GridDays, NumSlots, {},
                   <<Course("C2", 2, FALSE, 1, 0, "I2", "CENG", 0),
                     Course("C1", 2, FALSE, 1, 0, "I1", "CENG", 0)>>,
                   <<BaseInstructor, SecondInstructor>>, BaseRooms)}

Configs ==
    ValidConfigs \cup SingleCourseConfigs \cup BacktrackConfigs \cup InvalidConfigs
        \cup DuplicateIdConfigs \cup NegativeCapConfigs \cup ZeroCapConfigs
        \cup DescendingIdConfigs

StepLimits == {SmallStepLimit, DefaultStepLimit}

\* ------------------------------------------------------------------ validator
\* mutant of validate_config: the checks of each record alone, without the
\* cross-reference and grid checks that follow them
validate_config_fields_only(config) ==
    LET cs == config.courses
        ins == config.instructors
        rs == config.rooms
    IN IF \E k \in 1..Len(cs) :
            \/ cs[k].id = "" \/ cs[k].year \notin {1, 2, 3, 4}
            \/ cs[k].weekly_theory_hours < 0 \/ cs[k].weekly_lab_hours < 0
            \/ cs[k].instructor_id = ""
            \/ \E j \in 1..(k - 1) : cs[j].id = cs[k].id
       THEN "course"
       ELSE IF \E k \in 1..Len(ins) :
                ins[k].id = "" \/ ins[k].name = "" \/ ins[k].availability = {}
            THEN "instructor"
       ELSE IF \E k \in 1..Len(rs) :
                rs[k].id = "" \/ rs[k].capacity <= 0 \/ rs[k].type \notin {"theory", "lab"}
            THEN "room"
       ELSE "ok"

\* the reason validate_config raises InvalidInputError with, "ok" when it returns
validate_config(config) ==
    LET cs == config.courses
        ins == config.instructors
        rs == config.rooms
        valid_slots == {TimeSlot(config.common.days[d], i) :
                            d \in 1..Len(config.common.days),
                            i \in 1..config.common.slots_per_day}
        instructor_ids == {ins[k].id : k \in 1..Len(ins)}
        badCourse(k) ==
            \/ cs[k].id = "" \/ cs[k].year \notin {1, 2, 3, 4}
            \/ cs[k].weekly_theory_hours < 0 \/ cs[k].weekly_lab_hours < 0
            \/ cs[k].instructor_id = ""
            \/ \E j \in 1..(k - 1) : cs[j].id = cs[k].id
        badInstructor(k) ==
            ins[k].id = "" \/ ins[k].name = "" \/ ins[k].availability = {}
        badRoom(k) ==
            rs[k].id = "" \/ rs[k].capacity <= 0 \/ rs[k].type \notin {"theory", "lab"}
    IN IF config.common.days = <<>> \/ config.common.slots_per_day <= 0
            THEN "days/slots_per_day"
       ELSE IF \E k \in 1..Len(cs) : badCourse(k) THEN "course"
       ELSE IF \E k \in 1..Len(ins) : badInstructor(k) THEN "instructor"
       ELSE IF \E k \in 1..Len(rs) : badRoom(k) THEN "room"
       ELSE IF \E k \in 1..Len(cs) : cs[k].instructor_id \notin instructor_ids
            THEN "unknown instructor"
       ELSE IF \E k \in 1..Len(ins) : ~(ins[k].availability \subseteq valid_slots)
            THEN "availability out of grid"
       ELSE IF ~(config.common.forbidden_slots \subseteq valid_slots)
            THEN "forbidden slot out of grid"
       ELSE "ok"

\* ------------------------------------------------------- id -> record lookups
\* {x.id: x for x in xs}: the last record of an id wins
Lookup(xs, id) ==
    xs[CHOOSE k \in 1..Len(xs) :
            xs[k].id = id /\ \A j \in (k + 1)..Len(xs) : xs[j].id # id]

courses_map(config, id) == Lookup(config.courses, id)
rooms_map(config, id) == Lookup(config.rooms, id)
instructors_map(config, id) == Lookup(config.instructors, id)

\* ------------------------------------------------------------------- atomizer
SessionAtom(c, session_type) ==
    [course_id |-> c.id, session_type |-> session_type, year |-> c.year,
     program |-> c.program, instructor_id |-> c.instructor_id]

RECURSIVE build_atoms(_)
build_atoms(courses) ==
    IF courses = <<>> THEN <<>>
    ELSE LET c == Head(courses)
         IN Rep(SessionAtom(c, "theory"), c.weekly_theory_hours)
              \o Rep(SessionAtom(c, "lab"), c.weekly_lab_hours)
              \o build_atoms(Tail(courses))

\* ------------------------------------------------------------- domain builder
\* mutant of forbidden: the slot indices taken one too high
forbidden_shifted(common) ==
    {TimeSlot(ts.day, ts.index + 1) : ts \in common.forbidden_slots}

\* {(ts.day, ts.index) for ts in common.forbidden_slots}
forbidden(common) == common.forbidden_slots

\* availability_set.get(instructor_id, set())
availability_set(config, id) ==
    IF \E k \in 1..Len(config.instructors) : config.instructors[k].id = id
    THEN instructors_map(config, id).availability
    ELSE {}

rooms_by_type(config, type) == SelectSeq(config.rooms, LAMBDA r : r.type = type)

\* the pairs list built for one atom: days, then slot index, then rooms of the type
DomainPairs(config, atom) ==
    LET days == config.common.days
        spd == config.common.slots_per_day
        rt == rooms_by_type(config, atom.session_type)
        forSlot(d, i) ==
            IF TimeSlot(d, i) \in forbidden(config.common) THEN <<>>
            ELSE IF TimeSlot(d, i) \notin availability_set(config, atom.instructor_id)
                 THEN <<>>
            ELSE [r \in 1..Len(rt) |-> [slot |-> TimeSlot(d, i), room_id |-> rt[r].id]]
        forDay(d) == Concat([i \in 1..spd |-> forSlot(d, i)])
    IN Concat([d \in 1..Len(days) |-> forDay(days[d])])

\* the dict atom -> Domain: keys in insertion order, equal atoms being one key
compute_initial_domains(config) ==
    LET keys == Dedup(build_atoms(config.courses))
    IN [keys |-> keys,
        pairs |-> [a \in Range(keys) |-> DomainPairs(config, a)]]

\* ------------------------------------------------------------------- ordering
AtomKey(config, doms, a) ==
    LET c == courses_map(config, a.course_id)
    IN << IF c.required THEN 0 ELSE 1,
          0 - (c.weekly_theory_hours + c.weekly_lab_hours),
          IF a.session_type = "lab" THEN 0 ELSE 1,
          Len(doms.pairs[a]),
          0 - c.year >>

sort_atoms_mrv(atomList, doms, config) ==
    StableSort(atomList, [i \in 1..Len(atomList) |-> AtomKey(config, doms, atomList[i])])

CandidateKey(pr) == <<pr.slot.index, StrRank(pr.slot.day), StrRank(pr.room_id)>>

\* sorted(domains[atom].pairs, key=(index, day, room id))
candidates(doms, atom) ==
    StableSort(doms.pairs[atom],
               [i \in 1..Len(doms.pairs[atom]) |-> CandidateKey(doms.pairs[atom][i])])

\* ------------------------------------------------------------------- schedule
Placement(atom, slot, room_id) == [atom |-> atom, slot |-> slot, room_id |-> room_id]

\* mutant of HasDuplicates: only neighbouring entries are compared (as on a
\* list taken to be sorted)
HasAdjacentDuplicates(s) == \E i \in 1..(Len(s) - 1) : s[i] = s[i + 1]

HasDuplicates(s) == Len(s) # Cardinality(Range(s))

\* mutant of by_slot: out[key] = [p] instead of setdefault(key, []).append(p),
\* so that each slot keeps its last placement only
by_slot_last_only(placements) ==
    LET keys == Dedup([i \in 1..Len(placements) |-> placements[i].slot])
    IN [k \in 1..Len(keys) |->
            LET ps == SelectSeq(placements, LAMBDA p : p.slot = keys[k])
            IN [key |-> keys[k], placements |-> <<ps[Len(ps)]>>]]

\* Schedule.by_slot: the dict (day, index) -> placements, as its items in
\* insertion order
by_slot(placements) ==
    LET keys == Dedup([i \in 1..Len(placements) |-> placements[i].slot])
    IN [k \in 1..Len(keys) |->
            [key |-> keys[k],
             placements |-> SelectSeq(placements, LAMBDA p : p.slot = keys[k])]]

\* mutant of TheoryHours: the session type tested is "lab"
TheoryHoursOfLabs(placements, ins, day) ==
    Len(SelectSeq(placements, LAMBDA p :
            /\ p.atom.session_type = "lab"
            /\ p.atom.instructor_id = ins
            /\ p.slot.day = day))

\* theory placements of an instructor on a day (per_day / daily_theory_hours)
TheoryHours(placements, ins, day) ==
    Len(SelectSeq(placements, LAMBDA p :
            /\ p.atom.session_type = "theory"
            /\ p.atom.instructor_id = ins
            /\ p.slot.day = day))

\* the (instructor, day) keys of per_day / daily_theory_hours, in insertion order
TheoryDayKeys(placements) ==
    Dedup([i \in 1..Len(SelectSeq(placements, LAMBDA p : p.atom.session_type = "theory")) |->
            LET p == SelectSeq(placements, LAMBDA q : q.atom.session_type = "theory")[i]
            IN <<p.atom.instructor_id, p.slot.day>>])

\* earliest_theory / earliest_lab: course id -> least slot index of the kind;
\* every placement that is not theory counts as lab
KindPlacements(placements, cid, isTheory) ==
    SelectSeq(placements, LAMBDA p :
        p.atom.course_id = cid /\ ((p.atom.session_type = "theory") = isTheory))

EarliestIndex(placements, cid, isTheory) ==
    LET idxs == {p.slot.index : p \in Range(KindPlacements(placements, cid, isTheory))}
    IN CHOOSE m \in idxs : \A x \in idxs : m <= x

\* the course ids that have a lab placement, in insertion order
LabCourses(placements) ==
    Dedup([i \in 1..Len(SelectSeq(placements, LAMBDA p : p.atom.session_type # "theory")) |->
            SelectSeq(placements, LAMBDA p : p.atom.session_type # "theory")[i].atom.course_id])

LabNotAfterTheory(placements, cid) ==
    \/ KindPlacements(placements, cid, TRUE) = <<>>
    \/ EarliestIndex(placements, cid, FALSE) <= EarliestIndex(placements, cid, TRUE)

\* --------------------------------------------------------- incremental pruner
\* lines 99-115: a slot holding a room, an instructor or a year twice
SlotClash(schedule, config) ==
    LET groups == by_slot(schedule)
        clash(g) ==
            \/ HasDuplicates([i \in 1..Len(g.placements) |-> g.placements[i].room_id])
            \/ HasDuplicates([i \in 1..Len(g.placements) |->
                                g.placements[i].atom.instructor_id])
            \/ HasDuplicates([i \in 1..Len(g.placements) |->
                                courses_map(config, g.placements[i].atom.course_id).year])
    IN \E k \in 1..Len(groups) : clash(groups[k])

\* lines 117-121
ForbiddenUsed(schedule, config) ==
    \E i \in 1..Len(schedule) : schedule[i].slot \in forbidden(config.common)

\* lines 123-131
DailyCapExceeded(schedule, config) ==
    \E key \in Range(TheoryDayKeys(schedule)) :
        TheoryHours(schedule, key[1], key[2])
            > instructors_map(config, key[1]).max_daily_theory_hours

\* lines 133-145
LabOrderBroken(schedule) ==
    \E cid \in Range(LabCourses(schedule)) : LabNotAfterTheory(schedule, cid)

incremental_hard_violation(schedule, config) ==
    \/ SlotClash(schedule, config)
    \/ ForbiddenUsed(schedule, config)
    \/ DailyCapExceeded(schedule, config)
    \/ LabOrderBroken(schedule)

\* ------------------------------------------------------------------ evaluator
NoSlot == [day |-> "None", index |-> 0]

Violation(type, severity, slot, course_ids, instructor_id, room_id) ==
    [type |-> type, severity |-> severity, slot |-> slot, course_ids |-> course_ids,
     instructor_id |-> instructor_id, room_id |-> room_id]

no_friday_exam_period(schedule, common) ==
    Concat([i \in 1..Len(schedule) |->
        LET p == schedule[i]
        IN IF p.slot \in forbidden(common)
           THEN <<Violation("FORBIDDEN_SLOT", "hard", p.slot, <<p.atom.course_id>>,
                            "None", p.room_id)>>
           ELSE <<>>])

\* mutant of room_type_and_capacity: the capacity comparison of ROOM_CAPACITY
\* turned round
room_type_and_capacity_flipped(schedule, config) ==
    Concat([i \in 1..Len(schedule) |->
        LET p == schedule[i]
            r == rooms_map(config, p.room_id)
            c == courses_map(config, p.atom.course_id)
            v(type) == <<Violation(type, "hard", p.slot, <<c.id>>, "None", r.id)>>
        IN (IF p.atom.session_type = "lab"
            THEN (IF r.type # "lab" THEN v("ROOM_TYPE") ELSE <<>>)
                    \o (IF r.capacity > LabCapacityCap THEN v("LAB_CAPACITY") ELSE <<>>)
            ELSE (IF r.type # "theory" THEN v("ROOM_TYPE") ELSE <<>>))
           \o (IF /\ c.expected_students # 0
                  /\ r.capacity > c.expected_students
                  /\ p.atom.session_type = "theory"
               THEN v("ROOM_CAPACITY") ELSE <<>>)])

room_type_and_capacity(schedule, config) ==
    Concat([i \in 1..Len(schedule) |->
        LET p == schedule[i]
            r == rooms_map(config, p.room_id)
            c == courses_map(config, p.atom.course_id)
            v(type) == <<Violation(type, "hard", p.slot, <<c.id>>, "None", r.id)>>
        IN (IF p.atom.session_type = "lab"
            THEN (IF r.type # "lab" THEN v("ROOM_TYPE") ELSE <<>>)
                    \o (IF r.capacity > LabCapacityCap THEN v("LAB_CAPACITY") ELSE <<>>)
            ELSE (IF r.type # "theory" THEN v("ROOM_TYPE") ELSE <<>>))
           \o (IF /\ c.expected_students # 0
                  /\ r.capacity < c.expected_students
                  /\ p.atom.session_type = "theory"
               THEN v("ROOM_CAPACITY") ELSE <<>>)])

instructor_overlap_and_daily_cap(schedule, config) ==
    LET slotKeys == Dedup([i \in 1..Len(schedule) |->
                            <<schedule[i].atom.instructor_id, schedule[i].slot>>])
        coursesAt(key) ==
            LET ps == SelectSeq(schedule, LAMBDA p :
                        <<p.atom.instructor_id, p.slot>> = key)
            IN [i \in 1..Len(ps) |-> ps[i].atom.course_id]
        dayKeys == TheoryDayKeys(schedule)
    IN Concat([k \in 1..Len(slotKeys) |->
            IF Len(coursesAt(slotKeys[k])) > 1
            THEN <<Violation("INSTRUCTOR_OVERLAP", "hard", slotKeys[k][2],
                             coursesAt(slotKeys[k]), slotKeys[k][1], "None")>>
            ELSE <<>>])
       \o Concat([k \in 1..Len(dayKeys) |->
            IF TheoryHours(schedule, dayKeys[k][1], dayKeys[k][2])
                    > instructors_map(config, dayKeys[k][1]).max_daily_theory_hours
            THEN <<Violation("INSTRUCTOR_THEORY_CAP", "hard", NoSlot, <<>>,
                             dayKeys[k][1], "None")>>
            ELSE <<>>])

lab_after_theory(schedule) ==
    LET cids == LabCourses(schedule)
    IN Concat([k \in 1..Len(cids) |->
            IF LabNotAfterTheory(schedule, cids[k])
            THEN <<Violation("LAB_AFTER_THEORY", "hard", NoSlot, <<cids[k]>>,
                             "None", "None")>>
            ELSE <<>>])

cohort_and_elective_constraints(schedule, config) ==
    LET groups == by_slot(schedule)
        course(p) == courses_map(config, p.atom.course_id)
        forGroup(g) ==
            LET ps == g.placements
                ids == [i \in 1..Len(ps) |-> ps[i].atom.course_id]
                years == [i \in 1..Len(ps) |-> course(ps[i]).year]
                has_y3 == \E i \in 1..Len(ps) : course(ps[i]).year = 3
                has_elective == \E i \in 1..Len(ps) : ~course(ps[i]).required
                elective_programs ==
                    {course(ps[i]).program : i \in {j \in 1..Len(ps) : ~course(ps[j]).required}}
                v(type) == <<Violation(type, "hard", g.key, ids, "None", "None")>>
            IN (IF HasDuplicates(years) THEN v("YEAR_OVERLAP") ELSE <<>>)
               \o (IF has_y3 /\ has_elective THEN v("Y3_VS_ELECTIVES") ELSE <<>>)
               \o (IF "CENG" \in elective_programs /\ "SENG" \in elective_programs
                   THEN v("PROGRAM_ELECTIVE_OVERLAP") ELSE <<>>)
    IN Concat([k \in 1..Len(groups) |-> forGroup(groups[k])])

\* the slot indices of a course's lab placements, ascending (indices.sort())
LabIndices(schedule, cid) ==
    LET ps == SelectSeq(schedule, LAMBDA p :
                p.atom.session_type = "lab" /\ p.atom.course_id = cid)
    IN StableSort([i \in 1..Len(ps) |-> ps[i].slot.index],
                  [i \in 1..Len(ps) |-> <<ps[i].slot.index>>])

prefer_consecutive_lab(schedule, config) ==
    LET labs == SelectSeq(schedule, LAMBDA p : p.atom.session_type = "lab")
        cids == Dedup([i \in 1..Len(labs) |-> labs[i].atom.course_id])
        flagged(cid) ==
            LET indices == LabIndices(schedule, cid)
            IN /\ Len(indices) >= 2
               /\ ~(\E i \in 1..(Len(indices) - 1) : indices[i + 1] = indices[i] + 1)
               /\ courses_map(config, cid).prefer_consecutive_lab
    IN Concat([k \in 1..Len(cids) |->
            IF flagged(cids[k])
            THEN <<Violation("LAB_NON_CONSECUTIVE", "soft", NoSlot, <<cids[k]>>,
                             "None", "None")>>
            ELSE <<>>])

collect_violations(schedule, config) ==
    no_friday_exam_period(schedule, config.common)
        \o room_type_and_capacity(schedule, config)
        \o instructor_overlap_and_daily_cap(schedule, config)
        \o lab_after_theory(schedule)
        \o cohort_and_elective_constraints(schedule, config)
        \o prefer_consecutive_lab(schedule, config)

hard_exists(violations) == \E i \in 1..Len(violations) : violations[i].severity = "hard"

\* ------------------------------------------------------------ generate: state
VARIABLES
    config,                 \* the BeePlanConfig passed to generate
    step_limit,             \* the step_limit argument
    pc,                     \* "start", "call", "loop", "revert", "ret",
                            \* "collect", "done", "raised"
    error,                  \* the exception generate raised, "" when none
    domains,                \* compute_initial_domains(config)
    atoms,                  \* the sorted atom list
    schedule,               \* schedule.placements
    used_room_slot,         \* set of <<room_id, day, index>>
    used_instructor_slot,   \* set of <<instructor_id, day, index>>
    attempts,               \* the step counter
    frames,                 \* frames[i+1]: the locals of the active place(i), its
                            \* sorted candidates and the position of its loop in them
    retval,                 \* value returned by the place call that last returned
    leaf,                   \* some place call reached idx == len(atoms)
    result,                 \* the ScheduleResult
    deepest,                \* history variable, not a variable of the program:
                            \* the most placements a partial assignment that
                            \* passed the pruner held while the step counter
                            \* was within step_limit
    other                   \* the locals of a second generate call whose steps
                            \* are interleaved with those of this one, NoOther
                            \* when there is none

\* The repository holds two further schedulers, each a program of its own: the
\* greedy Scheduler of logic/scheduler.py and the ScheduleAlgorithm behind the
\* window of BEEPLANGUI. Their state is idle in the runs of generate.
VARIABLES
    scheduler,              \* the Scheduler: courses, rooms, instructor_avail
    years,                  \* the years argument of Scheduler.generate
    grid,                   \* Schedule.grid, (year, day, hour_index) -> item
    blocks,                 \* the _place_blocks calls the loops of
                            \* Scheduler.generate have still to make
    counted,                \* history variable: for each _place_blocks call
                            \* that returned, the value of its local `placed'
    greedy_pc               \* "none", "run", "returned"

greedyVars == <<scheduler, years, grid, blocks, counted, greedy_pc>>

VARIABLES
    gui_courses,            \* BeePlanMainWindow.courses, the Course objects
    gui_instructors,        \* BeePlanMainWindow.instructors
    gui_rooms,              \* BeePlanMainWindow.rooms
    algorithm,              \* BeePlanMainWindow.algorithm, the ScheduleAlgorithm
    conflicts,              \* BeePlanMainWindow.conflicts
    gen,                    \* the locals of the running generate_schedule
    clicks                  \* number of generate_schedule calls made so far

guiVars == <<gui_courses, gui_instructors, gui_rooms, algorithm, conflicts, gen,
             clicks>>

vars == <<config, step_limit, pc, error, domains, atoms, schedule, used_room_slot,
          used_instructor_slot, attempts, frames, retval, leaf, result, deepest,
          other, greedyVars, guiVars>>

\* no Scheduler has been constructed
GreedyIdle ==
    /\ scheduler = [courses |-> <<>>, rooms |-> <<>>, instructor_avail |-> <<>>]
    /\ years = <<>>
    /\ grid = <<>>
    /\ blocks = <<>>
    /\ counted = <<>>
    /\ greedy_pc = "none"

NoAlgorithm == [schedule_entries |-> <<>>, instructor_schedule |-> <<>>,
                room_schedule |-> <<>>, instructor_daily_theory |-> <<>>]

NoGen == [pc |-> "none"]

\* no window has been opened
GuiIdle ==
    /\ gui_courses = <<>>
    /\ gui_instructors = <<>>
    /\ gui_rooms = <<>>
    /\ algorithm = NoAlgorithm
    /\ conflicts = <<>>
    /\ gen = NoGen
    /\ clicks = 0

NoOther == [pc |-> "none"]

NoResult == [schedule |-> <<>>, violations |-> <<>>, warnings |-> <<>>,
             attempts |-> 0, complete |-> FALSE]

Init ==
    /\ config \in Configs
    /\ step_limit \in StepLimits
    /\ pc = "start"
    /\ error = ""
    /\ domains = [keys |-> <<>>, pairs |-> <<>>]
    /\ atoms = <<>>
    /\ schedule = <<>>
    /\ used_room_slot = {}
    /\ used_instructor_slot = {}
    /\ attempts = 0
    /\ frames = <<>>
    /\ retval = FALSE
    /\ leaf = FALSE
    /\ result = NoResult
    /\ deepest = 0
    /\ other = NoOther
    /\ GreedyIdle
    /\ GuiIdle

\* the atom and the candidate the innermost active place call is at
CurAtom == atoms[Len(frames)]
CurPos == frames[Len(frames)].pos
CurCandidates == frames[Len(frames)].candidates
CurCandidate == CurCandidates[CurPos]

RoomKey(room_id, slot) == <<room_id, slot.day, slot.index>>
InstructorKey(atom, slot) == <<atom.instructor_id, slot.day, slot.index>>

Advance(fs) == [fs EXCEPT ![Len(fs)].pos = @ + 1]
Pop(s) == SubSeq(s, 1, Len(s) - 1)

\* generate, lines 164-169: validate_config raises
ValidateFails ==
    /\ pc = "start"
    /\ validate_config(config) # "ok"
    /\ pc' = "raised"
    /\ error' = "InvalidInput"
    /\ UNCHANGED <<config, step_limit, domains, atoms, schedule, used_room_slot,
                   used_instructor_slot, attempts, frames, retval, leaf, result,
                   deepest>>
    /\ UNCHANGED <<other, greedyVars, guiVars>>

\* mutant of Setup: the validator sorts the day list of the configuration in
\* place while it builds the grid
SetupSortingDays ==
    /\ pc = "start"
    /\ validate_config(config) = "ok"
    /\ LET doms == compute_initial_domains(config)
       IN /\ domains' = doms
          /\ atoms' = sort_atoms_mrv(doms.keys, doms, config)
    /\ config' = [config EXCEPT !.common.days =
                     StableSort(config.common.days,
                                [i \in 1..Len(config.common.days) |->
                                    <<StrRank(config.common.days[i])>>])]
    /\ schedule' = <<>>
    /\ attempts' = 0
    /\ used_room_slot' = {}
    /\ used_instructor_slot' = {}
    /\ pc' = "call"
    /\ UNCHANGED <<step_limit, error, frames, retval, leaf, result, deepest>>
    /\ UNCHANGED <<other, greedyVars, guiVars>>

\* generate, lines 164-184 and the call place(0) of line 220
Setup ==
    /\ pc = "start"
    /\ validate_config(config) = "ok"
    /\ LET doms == compute_initial_domains(config)
       IN /\ domains' = doms
          /\ atoms' = sort_atoms_mrv(doms.keys, doms, config)
    /\ schedule' = <<>>
    /\ attempts' = 0
    /\ used_room_slot' = {}
    /\ used_instructor_slot' = {}
    /\ pc' = "call"
    /\ UNCHANGED <<config, step_limit, error, frames, retval, leaf, result, deepest>>
    /\ UNCHANGED <<other, greedyVars, guiVars>>

Reverse(s) == [i \in 1..Len(s) |-> s[Len(s) + 1 - i]]

\* mutant of PlaceEnter: the candidates taken in an unspecified order (as when
\* iterating an unordered collection), here ascending or descending
PlaceEnterUnordered ==
    /\ pc = "call"
    /\ attempts' = attempts + 1
    /\ IF attempts + 1 > step_limit
       THEN /\ retval' = FALSE
            /\ pc' = "ret"
            /\ UNCHANGED <<frames, leaf>>
       ELSE IF Len(frames) = Len(atoms)
       THEN /\ retval' = TRUE
            /\ leaf' = TRUE
            /\ pc' = "ret"
            /\ UNCHANGED frames
       ELSE /\ \E cs \in {candidates(domains, atoms[Len(frames) + 1]),
                          Reverse(candidates(domains, atoms[Len(frames) + 1]))} :
                    frames' = Append(frames, [candidates |-> cs, pos |-> 1])
            /\ pc' = "loop"
            /\ UNCHANGED <<retval, leaf>>
    /\ UNCHANGED <<config, step_limit, error, domains, atoms, schedule,
                   used_room_slot, used_instructor_slot, result, deepest>>
    /\ UNCHANGED <<other, greedyVars, guiVars>>

\* place, lines 186-192: entry of place(idx), idx = Len(frames)
PlaceEnter ==
    /\ pc = "call"
    /\ attempts' = attempts + 1
    /\ IF attempts + 1 > step_limit
       THEN /\ retval' = FALSE
            /\ pc' = "ret"
            /\ UNCHANGED <<frames, leaf>>
       ELSE IF Len(frames) = Len(atoms)
       THEN /\ retval' = TRUE
            /\ leaf' = TRUE
            /\ pc' = "ret"
            /\ UNCHANGED frames
       ELSE /\ frames' = Append(frames,
                                [candidates |-> candidates(domains, atoms[Len(frames) + 1]),
                                 pos |-> 1])
            /\ pc' = "loop"
            /\ UNCHANGED <<retval, leaf>>
    /\ UNCHANGED <<config, step_limit, error, domains, atoms, schedule,
                   used_room_slot, used_instructor_slot, result, deepest>>
    /\ UNCHANGED <<other, greedyVars, guiVars>>

\* the history variable after a placement: the depth n counts when the
\* placement passed the pruner and the step counter is within step_limit
Deeper(old, passed, n) ==
    IF passed /\ attempts <= step_limit /\ n > old THEN n ELSE old

\* place, lines 199-202: the fast occupancy checks of a candidate
Occupied(atom, slot, room_id) ==
    \/ RoomKey(room_id, slot) \in used_room_slot
    \/ InstructorKey(atom, slot) \in used_instructor_slot

\* mutant of TryCandidate: the loop body without its overlap guards, neither
\* the occupancy indices nor the per-slot loop of the pruner
TryCandidateUnguarded ==
    /\ pc = "loop"
    /\ IF CurPos > Len(CurCandidates)
       THEN /\ frames' = Pop(frames)
            /\ retval' = FALSE
            /\ pc' = "ret"
            /\ UNCHANGED <<schedule, used_room_slot, used_instructor_slot, deepest>>
       ELSE LET slot == CurCandidate.slot
                room_id == CurCandidate.room_id
            IN /\ schedule' = Append(schedule, Placement(CurAtom, slot, room_id))
               /\ used_room_slot' = used_room_slot \cup {RoomKey(room_id, slot)}
               /\ used_instructor_slot' =
                       used_instructor_slot \cup {InstructorKey(CurAtom, slot)}
               /\ pc' = IF \/ ForbiddenUsed(schedule', config)
                           \/ DailyCapExceeded(schedule', config)
                           \/ LabOrderBroken(schedule')
                        THEN "revert" ELSE "call"
               /\ deepest' = Deeper(deepest, pc' = "call", Len(schedule'))
               /\ UNCHANGED <<frames, retval>>
    /\ UNCHANGED <<config, step_limit, error, domains, atoms, attempts, leaf, result>>
    /\ UNCHANGED <<other, greedyVars, guiVars>>

\* place, lines 197-210 and 218: one turn of the candidate loop, up to the
\* recursive call, the revert or the return
TryCandidate ==
    /\ pc = "loop"
    /\ IF CurPos > Len(CurCandidates)
       THEN /\ frames' = Pop(frames)
            /\ retval' = FALSE
            /\ pc' = "ret"
            /\ UNCHANGED <<schedule, used_room_slot, used_instructor_slot, deepest>>
       ELSE LET slot == CurCandidate.slot
                room_id == CurCandidate.room_id
            IN IF Occupied(CurAtom, slot, room_id)
               THEN /\ frames' = Advance(frames)
                    /\ UNCHANGED <<schedule, used_room_slot, used_instructor_slot,
                                   retval, pc, deepest>>
               ELSE /\ schedule' = Append(schedule, Placement(CurAtom, slot, room_id))
                    /\ used_room_slot' = used_room_slot \cup {RoomKey(room_id, slot)}
                    /\ used_instructor_slot' =
                            used_instructor_slot \cup {InstructorKey(CurAtom, slot)}
                    /\ pc' = IF incremental_hard_violation(schedule', config)
                             THEN "revert" ELSE "call"
                    /\ deepest' = Deeper(deepest, pc' = "call", Len(schedule'))
                    /\ UNCHANGED <<frames, retval>>
    /\ UNCHANGED <<config, step_limit, error, domains, atoms, attempts, leaf, result>>
    /\ UNCHANGED <<other, greedyVars, guiVars>>

\* mutant of Revert: the instructor index is not cleaned up
RevertKeepsInstructor ==
    /\ pc = "revert"
    /\ schedule' = Pop(schedule)
    /\ used_room_slot' = used_room_slot \ {RoomKey(CurCandidate.room_id, CurCandidate.slot)}
    /\ frames' = Advance(frames)
    /\ pc' = "loop"
    /\ UNCHANGED <<config, step_limit, error, domains, atoms, attempts, retval, leaf,
                   result, deepest, used_instructor_slot>>
    /\ UNCHANGED <<other, greedyVars, guiVars>>

\* mutant of Revert: the placement stays in the list
RevertKeepsPlacement ==
    /\ pc = "revert"
    /\ used_room_slot' = used_room_slot \ {RoomKey(CurCandidate.room_id, CurCandidate.slot)}
    /\ used_instructor_slot' =
            used_instructor_slot \ {InstructorKey(CurAtom, CurCandidate.slot)}
    /\ frames' = Advance(frames)
    /\ pc' = "loop"
    /\ UNCHANGED <<config, step_limit, error, domains, atoms, attempts, retval, leaf,
                   result, deepest, schedule>>
    /\ UNCHANGED <<other, greedyVars, guiVars>>

\* mutant of Revert: the loop does not move on to its next candidate
RevertWithoutAdvance ==
    /\ pc = "revert"
    /\ schedule' = Pop(schedule)
    /\ used_room_slot' = used_room_slot \ {RoomKey(CurCandidate.room_id, CurCandidate.slot)}
    /\ used_instructor_slot' =
            used_instructor_slot \ {InstructorKey(CurAtom, CurCandidate.slot)}
    /\ pc' = "loop"
    /\ UNCHANGED <<config, step_limit, error, domains, atoms, attempts, retval, leaf,
                   result, deepest, frames>>
    /\ UNCHANGED <<other, greedyVars, guiVars>>

\* place, lines 213-216
Revert ==
    /\ pc = "revert"
    /\ schedule' = Pop(schedule)
    /\ used_room_slot' = used_room_slot \ {RoomKey(CurCandidate.room_id, CurCandidate.slot)}
    /\ used_instructor_slot' =
            used_instructor_slot \ {InstructorKey(CurAtom, CurCandidate.slot)}
    /\ frames' = Advance(frames)
    /\ pc' = "loop"
    /\ UNCHANGED <<config, step_limit, error, domains, atoms, attempts, retval, leaf,
                   result, deepest>>
    /\ UNCHANGED <<other, greedyVars, guiVars>>

\* mutant of Return: after a failed inner call the loop moves on to its next
\* candidate without the revert
ReturnSkippingRevert ==
    /\ pc = "ret"
    /\ IF frames = <<>>
       THEN /\ pc' = "collect"
            /\ UNCHANGED frames
       ELSE IF retval
       THEN /\ frames' = Pop(frames)
            /\ pc' = "ret"
       ELSE /\ pc' = "loop"
            /\ frames' = Advance(frames)
    /\ UNCHANGED <<config, step_limit, error, domains, atoms, schedule, used_room_slot,
                   used_instructor_slot, attempts, retval, leaf, result, deepest>>
    /\ UNCHANGED <<other, greedyVars, guiVars>>

\* place, lines 210-211: a place call returns to its caller (line 220 for place(0))
Return ==
    /\ pc = "ret"
    /\ IF frames = <<>>
       THEN /\ pc' = "collect"
            /\ UNCHANGED frames
       ELSE IF retval
       THEN /\ frames' = Pop(frames)
            /\ pc' = "ret"
       ELSE /\ pc' = "revert"
            /\ UNCHANGED frames
    /\ UNCHANGED <<config, step_limit, error, domains, atoms, schedule, used_room_slot,
                   used_instructor_slot, attempts, retval, leaf, result, deepest>>
    /\ UNCHANGED <<other, greedyVars, guiVars>>

\* mutant of Complete: the violations are not consulted
CompleteIgnoringViolations(search_ok, violations) == search_ok

\* mutant of Complete: the outcome of the search is not consulted
CompleteIgnoringSearch(search_ok, violations) == ~hard_exists(violations)

\* the complete flag of lines 225-226
Complete(search_ok, violations) == search_ok /\ ~hard_exists(violations)

\* generate, lines 222-234
Finish ==
    /\ pc = "collect"
    /\ LET violations == collect_violations(schedule, config)
       IN result' = [schedule |-> schedule,
                     violations |-> violations,
                     warnings |-> SelectSeq(violations, LAMBDA v : v.severity = "soft"),
                     attempts |-> attempts,
                     complete |-> Complete(retval, violations)]
    /\ pc' = "done"
    /\ UNCHANGED <<config, step_limit, error, domains, atoms, schedule, used_room_slot,
                   used_instructor_slot, attempts, frames, retval, leaf, deepest>>
    /\ UNCHANGED <<other, greedyVars, guiVars>>

Next ==
    \/ ValidateFails
    \/ Setup
    \/ PlaceEnter
    \/ TryCandidate
    \/ Revert
    \/ Return
    \/ Finish

Spec == Init /\ [][Next]_vars

\* ===================================================================== claims
ResultReady == pc = "done"
CompleteResult == pc = "done" /\ result.complete

Placed == result.schedule
PlacedIdx == 1..Len(result.schedule)
CourseOf(p) == CHOOSE c \in Range(config.courses) : c.id = p.atom.course_id
RoomOf(p) == CHOOSE r \in Range(config.rooms) : r.id = p.room_id
InstructorOf(id) == CHOOSE i \in Range(config.instructors) : i.id = id

\* number of placements of a course and session type in the returned schedule
PlacedHours(cid, type) ==
    Cardinality({i \in PlacedIdx :
        Placed[i].atom.course_id = cid /\ Placed[i].atom.session_type = type})

\* week order of slots: (day ordinal, slot index)
SlotBefore(s, t) ==
    \/ DayOrdinal(s.day) < DayOrdinal(t.day)
    \/ DayOrdinal(s.day) = DayOrdinal(t.day) /\ s.index < t.index

\* C1: in a result with complete = true every course has exactly
\* weekly_theory_hours theory placements and weekly_lab_hours lab placements.
C1_EveryWeeklyHourPlaced ==
    CompleteResult =>
        \A c \in Range(config.courses) :
            /\ PlacedHours(c.id, "theory") = c.weekly_theory_hours
            /\ PlacedHours(c.id, "lab") = c.weekly_lab_hours

\* C2: in a result with complete = true no two distinct placements share
\* (room_id, day, index) and no two share (instructor_id, day, index).
C2_NoDoubleBooking ==
    CompleteResult =>
        \A i, j \in PlacedIdx :
            (i # j /\ Placed[i].slot = Placed[j].slot) =>
                /\ Placed[i].room_id # Placed[j].room_id
                /\ Placed[i].atom.instructor_id # Placed[j].atom.instructor_id

\* a complete result in which one room serves two placements and one
\* instructor teaches two placements
C2_Witness ==
    /\ CompleteResult
    /\ \E i, j \in PlacedIdx : i # j /\ Placed[i].room_id = Placed[j].room_id
    /\ \E i, j \in PlacedIdx :
            i # j /\ Placed[i].atom.instructor_id = Placed[j].atom.instructor_id

\* C3: in a result with complete = true, for every course with theory and lab
\* placements the earliest lab is strictly later in the week than the earliest
\* theory.
C3_LabAfterTheory ==
    CompleteResult =>
        \A c \in Range(config.courses) :
            (PlacedHours(c.id, "theory") > 0 /\ PlacedHours(c.id, "lab") > 0) =>
                \E t \in PlacedIdx :
                    /\ Placed[t].atom.course_id = c.id
                    /\ Placed[t].atom.session_type = "theory"
                    /\ \A l \in PlacedIdx :
                        (Placed[l].atom.course_id = c.id
                            /\ Placed[l].atom.session_type = "lab")
                            => SlotBefore(Placed[t].slot, Placed[l].slot)

\* the case of C3: a complete result holding a lab placement
C3_Case ==
    CompleteResult /\ \E i \in PlacedIdx : Placed[i].atom.session_type = "lab"

\* no returned schedule holds a lab placement: C3_Case is unreachable
NoLabEverReturned ==
    ResultReady => \A i \in PlacedIdx : Placed[i].atom.session_type = "theory"

\* C4: in a result with complete = true the courses placed at one slot have
\* pairwise distinct years, no year-3 required course shares a slot with an
\* elective, and no CENG elective shares a slot with a SENG elective.
C4_CohortSeparation ==
    CompleteResult =>
        \A i, j \in PlacedIdx :
            (i # j /\ Placed[i].slot = Placed[j].slot) =>
                LET a == CourseOf(Placed[i])
                    b == CourseOf(Placed[j])
                IN /\ a.year # b.year
                   /\ ~(a.year = 3 /\ a.required /\ ~b.required)
                   /\ ~(~a.required /\ a.program = "CENG"
                            /\ ~b.required /\ b.program = "SENG")

\* a complete result with two courses of different years in one slot
C4_Witness ==
    /\ CompleteResult
    /\ \E i, j \in PlacedIdx :
        /\ i # j
        /\ Placed[i].slot = Placed[j].slot
        /\ CourseOf(Placed[i]).year # CourseOf(Placed[j]).year

\* C5: in a result with complete = true every placement's room has the type of
\* the atom's session, every lab room has capacity at most 40, and every theory
\* placement of a course with expected_students set is in a room of at least
\* that capacity.
C5_RoomFits ==
    CompleteResult =>
        \A i \in PlacedIdx :
            LET p == Placed[i]
            IN /\ RoomOf(p).type = p.atom.session_type
               /\ p.atom.session_type = "lab" => RoomOf(p).capacity <= 40
               /\ (p.atom.session_type = "theory" /\ CourseOf(p).expected_students # 0)
                    => RoomOf(p).capacity >= CourseOf(p).expected_students

\* a complete result placing a course with expected_students set, where a
\* smaller theory room exists too
C5_Witness ==
    /\ CompleteResult
    /\ \E i \in PlacedIdx :
        /\ CourseOf(Placed[i]).expected_students # 0
        /\ \E r \in Range(config.rooms) :
            r.type = "theory" /\ r.capacity < CourseOf(Placed[i]).expected_students

\* theory placements of an instructor on a day in the returned schedule
PlacedTheory(ins, day) ==
    Cardinality({i \in PlacedIdx :
        /\ Placed[i].atom.instructor_id = ins
        /\ Placed[i].slot.day = day
        /\ Placed[i].atom.session_type = "theory"})

C7_NoForbiddenPlacement ==
    ResultReady =>
        \A i \in PlacedIdx : Placed[i].slot \notin config.common.forbidden_slots

\* a returned schedule placing an instructor who is available on a forbidden slot
C7_Witness ==
    /\ ResultReady
    /\ \E i \in PlacedIdx :
        \E s \in config.common.forbidden_slots :
            s \in InstructorOf(Placed[i].atom.instructor_id).availability

\* C8: complete is true exactly when the search reached the leaf with every
\* search atom placed and the violations list holds no hard violation.
C8_CompleteFlag ==
    ResultReady =>
        (result.complete <=>
            /\ leaf
            /\ Len(result.schedule) = Len(atoms)
            /\ \A i \in 1..Len(result.violations) :
                    result.violations[i].severity # "hard")

\* a result whose search reached the leaf and whose schedule has a hard violation
C8_Witness ==
    /\ ResultReady
    /\ leaf
    /\ \E i \in 1..Len(result.violations) : result.violations[i].severity = "hard"
    /\ ~result.complete

\* every weekly hour of the configuration, one atom each
WeeklyHours == build_atoms(config.courses)

\* a schedule that satisfies every hard rule: the instructors' availability, no
\* room or instructor taken twice in a slot, the lab after the theory in week
\* order, and no hard violation of the evaluator
NoClash(sched) ==
    \A i, j \in 1..Len(sched) :
        (i # j /\ sched[i].slot = sched[j].slot) =>
            /\ sched[i].room_id # sched[j].room_id
            /\ sched[i].atom.instructor_id # sched[j].atom.instructor_id

HardFeasible(sched) ==
    /\ \A i \in 1..Len(sched) :
            sched[i].slot \in InstructorOf(sched[i].atom.instructor_id).availability
    /\ NoClash(sched)
    /\ \A l \in 1..Len(sched) :
            sched[l].atom.session_type = "lab" =>
                \E t \in 1..Len(sched) :
                    /\ sched[t].atom.course_id = sched[l].atom.course_id
                    /\ sched[t].atom.session_type = "theory"
                    /\ SlotBefore(sched[t].slot, sched[l].slot)
    /\ ~hard_exists(collect_violations(sched, config))

\* the (slot, room) pairs an hour can take under the rules on one placement
HourChoices(atom) ==
    {[slot |-> s, room_id |-> r.id] :
        s \in (InstructorOf(atom.instructor_id).availability
                    \ config.common.forbidden_slots),
        r \in {x \in Range(config.rooms) : x.type = atom.session_type}}

\* some extension of sched by the hours k.. of WeeklyHours is hard-feasible
RECURSIVE FeasibleFrom(_, _)
FeasibleFrom(sched, k) ==
    IF k > Len(WeeklyHours) THEN HardFeasible(sched)
    ELSE \E ch \in HourChoices(WeeklyHours[k]) :
            LET next == Append(sched, Placement(WeeklyHours[k], ch.slot, ch.room_id))
            IN NoClash(next) /\ FeasibleFrom(next, k + 1)

Feasible == FeasibleFrom(<<>>, 1)

\* C9: when some assignment of every weekly hour satisfies all hard rules and
\* the step limit is not exceeded, generate returns complete = true.
C9_SearchComplete ==
    (ResultReady /\ attempts <= step_limit /\ ~result.complete) => ~Feasible

\* C10: every course with fewer placements than weekly hours has a hard
\* UNPLACED violation in the result, and every result with complete = false
\* carries a hard violation.
C10_UnplacedReported ==
    ResultReady =>
        /\ \A c \in Range(config.courses) :
                (PlacedHours(c.id, "theory") + PlacedHours(c.id, "lab")
                        < c.weekly_theory_hours + c.weekly_lab_hours)
                    => \E i \in 1..Len(result.violations) :
                            /\ result.violations[i].type = "UNPLACED"
                            /\ result.violations[i].severity = "hard"
                            /\ c.id \in Range(result.violations[i].course_ids)
        /\ ~result.complete =>
                \E i \in 1..Len(result.violations) :
                    result.violations[i].severity = "hard"

\* C11: when the step counter has exceeded step_limit, the returned schedule
\* holds as many placements as the deepest consistent partial assignment the
\* search constructed before the limit was hit.
C11_BestPartialReturned ==
    (ResultReady /\ attempts > step_limit) => Len(result.schedule) = deepest

\* whenever the limit was exceeded the returned schedule is empty
C11_LimitReturnsEmpty ==
    (ResultReady /\ attempts > step_limit) => result.schedule = <<>>

\* the configuration passed validation and some search atom has an empty domain
EmptyDomain ==
    /\ pc \notin {"start", "raised"}
    /\ \E a \in Range(domains.keys) : domains.pairs[a] = <<>>

\* C12: when a valid configuration has an atom with an empty domain, generate
\* raises nothing, always has a next step until it has returned, and the
\* ScheduleResult it returns has complete = false.
C12_EmptyDomainStillReturns ==
    EmptyDomain =>
        /\ error = ""
        /\ pc # "done" => ENABLED Next
        /\ pc = "done" => ~result.complete

\* a result returned for a theory atom whose instructor's only available slot is
\* forbidden
C12_Witness ==
    /\ ResultReady
    /\ \E a \in Range(domains.keys) :
        /\ a.session_type = "theory"
        /\ domains.pairs[a] = <<>>
        /\ InstructorOf(a.instructor_id).availability \subseteq config.common.forbidden_slots

\* one course of 1 theory and 1 lab hour, its instructor available in every
\* grid slot, one theory room and one lab room of capacity at most 40
C13_Scenario ==
    /\ validate_config(config) = "ok"
    /\ Len(config.courses) = 1
    /\ config.courses[1].weekly_theory_hours = 1
    /\ config.courses[1].weekly_lab_hours = 1
    /\ InstructorOf(config.courses[1].instructor_id).availability = Grid
    /\ Len(rooms_by_type(config, "theory")) = 1
    /\ Len(rooms_by_type(config, "lab")) = 1
    /\ rooms_by_type(config, "lab")[1].capacity <= LabCapacityCap

\* C13: in that scenario generate places the theory and the lab session, and
\* the lab's (day ordinal, index) strictly follows the theory's.
C13_LabPlacedAfterTheory ==
    (C13_Scenario /\ ResultReady) =>
        /\ PlacedHours(config.courses[1].id, "theory") = 1
        /\ PlacedHours(config.courses[1].id, "lab") = 1
        /\ \A t, l \in PlacedIdx :
            (Placed[t].atom.session_type = "theory" /\ Placed[l].atom.session_type = "lab")
                => SlotBefore(Placed[t].slot, Placed[l].slot)

\* in that scenario generate returns an empty schedule with complete = false
C13_NothingPlaced ==
    (C13_Scenario /\ ResultReady) => (result.schedule = <<>> /\ ~result.complete)

\* weekly theory hours of the courses an instructor teaches
RECURSIVE SumTheory(_, _)
SumTheory(courses, ins) ==
    IF courses = <<>> THEN 0
    ELSE (IF Head(courses).instructor_id = ins
          THEN Head(courses).weekly_theory_hours ELSE 0)
            + SumTheory(Tail(courses), ins)

\* the days of the grid on which an instructor has an available slot
AvailableDays(ins) == {ts.day : ts \in ins.availability}

\* an instructor who must teach more theory hours than the daily cap allows
\* over the available days
Overloaded(ins) ==
    SumTheory(config.courses, ins.id)
        > Cardinality(AvailableDays(ins)) * ins.max_daily_theory_hours

\* C14: when some instructor's courses need more theory hours than (available
\* days) x max_daily_theory_hours, generate returns complete = false.
C14_OverloadIncomplete ==
    (ResultReady /\ \E k \in 1..Len(config.instructors) : Overloaded(config.instructors[k]))
        => ~result.complete

\* two courses that must not share a slot: a CENG and a SENG elective, or a
\* year-3 required course and an elective
ElectiveConflict(a, b) ==
    \/ ~a.required /\ ~b.required /\ a.program = "CENG" /\ b.program = "SENG"
    \/ a.year = 3 /\ a.required /\ ~b.required

\* C15: no returned schedule, complete or not, has a slot holding a CENG
\* elective and a SENG elective, or a year-3 required course and an elective.
C15_NoElectiveCoScheduling ==
    ResultReady =>
        \A i, j \in PlacedIdx :
            (i # j /\ Placed[i].slot = Placed[j].slot) =>
                ~ElectiveConflict(CourseOf(Placed[i]), CourseOf(Placed[j]))

\* the pruner lets such a pair through: a schedule handed to the evaluator
\* holds a CENG and a SENG elective in one slot
C15_ProgramElectivesShareSlot ==
    /\ ResultReady
    /\ \E i, j \in PlacedIdx :
        /\ Placed[i].slot = Placed[j].slot
        /\ ~CourseOf(Placed[i]).required /\ CourseOf(Placed[i]).program = "CENG"
        /\ ~CourseOf(Placed[j]).required /\ CourseOf(Placed[j]).program = "SENG"

\* a single course of 1 theory hour and no lab hour whose instructor has an
\* available slot that is not forbidden, and exactly one theory room, of
\* capacity at least expected_students
C16_Scenario ==
    /\ validate_config(config) = "ok"
    /\ Len(config.courses) = 1
    /\ config.courses[1].weekly_theory_hours = 1
    /\ config.courses[1].weekly_lab_hours = 0
    /\ InstructorOf(config.courses[1].instructor_id).availability
            \ config.common.forbidden_slots # {}
    /\ Len(rooms_by_type(config, "theory")) = 1
    /\ rooms_by_type(config, "theory")[1].capacity >= config.courses[1].expected_students

C16_ZeroCapCase ==
    /\ C16_Scenario
    /\ ResultReady
    /\ InstructorOf(config.courses[1].instructor_id).max_daily_theory_hours = 0
    /\ result.schedule = <<>>
    /\ ~result.complete

RepeatsId(xs) == \E i, j \in 1..Len(xs) : i # j /\ xs[i].id = xs[j].id

\* C17: generate's validation fails with InvalidInput for every configuration
\* holding two courses, two instructors or two rooms of the same id.
C17_DuplicateIdsRejected ==
    (pc # "start"
        /\ (RepeatsId(config.courses) \/ RepeatsId(config.instructors)
                \/ RepeatsId(config.rooms)))
        => (pc = "raised" /\ error = "InvalidInput")

\* the part of C17 the validator implements: a repeated course id is rejected
C17_DuplicateCourseRejected ==
    (pc # "start" /\ RepeatsId(config.courses))
        => (pc = "raised" /\ error = "InvalidInput")

\* a configuration with a repeated instructor id, and one with a repeated room
\* id, for which generate returns a ScheduleResult
C17_DuplicateInstructorAccepted == ResultReady /\ RepeatsId(config.instructors)
C17_DuplicateRoomAccepted == ResultReady /\ RepeatsId(config.rooms)

\* the slots of the configured grid, days x {1..slots_per_day}
GridOf(common) ==
    {TimeSlot(common.days[d], i) : d \in 1..Len(common.days), i \in 1..common.slots_per_day}

UnknownInstructor ==
    \E c \in Range(config.courses) :
        \A ins \in Range(config.instructors) : ins.id # c.instructor_id

AvailabilityOffGrid ==
    \E ins \in Range(config.instructors) :
        \E ts \in ins.availability : ts \notin GridOf(config.common)

ForbiddenOffGrid ==
    \E ts \in config.common.forbidden_slots : ts \notin GridOf(config.common)

NoGrid == config.common.days = <<>> \/ config.common.slots_per_day <= 0

Malformed == UnknownInstructor \/ AvailabilityOffGrid \/ ForbiddenOffGrid \/ NoGrid

\* nothing of the search has happened: no domain, no atom, no place call, no
\* placement
SearchNeverRan ==
    /\ domains = [keys |-> <<>>, pairs |-> <<>>]
    /\ atoms = <<>>
    /\ attempts = 0
    /\ schedule = <<>>
    /\ result = NoResult

\* C18: on a configuration with an unknown instructor reference, an
\* availability or forbidden slot outside the grid, no day or no slot per day,
\* generate raises InvalidInput and the search never runs.
C18_MalformedRaisesFirst ==
    (pc # "start" /\ Malformed) =>
        (pc = "raised" /\ error = "InvalidInput" /\ SearchNeverRan)

\* generate has raised on a course that references an unknown instructor
C18_Witness == pc = "raised" /\ UnknownInstructor /\ ~NoGrid

\* the other malformed cases are reached as well
C18_AvailabilityCase == pc = "raised" /\ AvailabilityOffGrid /\ ~NoGrid
C18_ForbiddenCase == pc = "raised" /\ ForbiddenOffGrid /\ ~NoGrid
C18_NoDayCase == pc = "raised" /\ config.common.days = <<>>
C18_NoSlotCase == pc = "raised" /\ config.common.slots_per_day <= 0

NegativeCap ==
    \E k \in 1..Len(config.instructors) : config.instructors[k].max_daily_theory_hours < 0

\* C19: for a configuration with an instructor whose max_daily_theory_hours
\* is negative, validation or generate raises ConstraintConfig and no
\* ScheduleResult is returned.
C19_ConstraintConfigRaised ==
    (pc # "start" /\ NegativeCap) => (pc = "raised" /\ error = "ConstraintConfig")

\* generate never raises anything but InvalidInput
C19_OnlyInvalidInputRaised == error \in {"", "InvalidInput"}

\* a ScheduleResult is returned for a negative cap
C19_NegativeCapReturns == ResultReady /\ NegativeCap

\* everything but the two arguments of generate has its initial value
FreshRun ==
    /\ error = ""
    /\ SearchNeverRan
    /\ used_room_slot = {}
    /\ used_instructor_slot = {}
    /\ frames = <<>>
    /\ retval = FALSE
    /\ leaf = FALSE
    /\ deepest = 0

\* generate as a function of its two arguments: place(idx) and its candidate
\* loop computed by recursion on a record of the search's variables
RECURSIVE place(_, _, _, _, _)
RECURSIVE place_loop(_, _, _, _, _, _, _)
place(idx, st, cfg, limit, search) ==
    LET entered == [st EXCEPT !.attempts = @ + 1]
    IN IF entered.attempts > limit THEN [entered EXCEPT !.ok = FALSE]
       ELSE IF idx = Len(search.atoms) THEN [entered EXCEPT !.ok = TRUE]
       ELSE place_loop(idx, candidates(search.domains, search.atoms[idx + 1]), 1,
                       entered, cfg, limit, search)

place_loop(idx, cands, k, st, cfg, limit, search) ==
    IF k > Len(cands) THEN [st EXCEPT !.ok = FALSE]
    ELSE LET atom == search.atoms[idx + 1]
             slot == cands[k].slot
             room_id == cands[k].room_id
             placed == [st EXCEPT
                         !.schedule = Append(@, Placement(atom, slot, room_id)),
                         !.used_room_slot = @ \cup {RoomKey(room_id, slot)},
                         !.used_instructor_slot = @ \cup {InstructorKey(atom, slot)}]
             reverted(r) == [r EXCEPT
                         !.schedule = Pop(@),
                         !.used_room_slot = @ \ {RoomKey(room_id, slot)},
                         !.used_instructor_slot = @ \ {InstructorKey(atom, slot)}]
         IN IF \/ RoomKey(room_id, slot) \in st.used_room_slot
               \/ InstructorKey(atom, slot) \in st.used_instructor_slot
            THEN place_loop(idx, cands, k + 1, st, cfg, limit, search)
            ELSE IF incremental_hard_violation(placed.schedule, cfg)
            THEN place_loop(idx, cands, k + 1, reverted(placed), cfg, limit, search)
            ELSE LET r == place(idx + 1, placed, cfg, limit, search)
                 IN IF r.ok THEN r
                    ELSE place_loop(idx, cands, k + 1, reverted(r), cfg, limit, search)

\* what generate(cfg, limit) raises and returns
generate(cfg, limit) ==
    IF validate_config(cfg) # "ok" THEN [error |-> "InvalidInput", result |-> NoResult]
    ELSE LET doms == compute_initial_domains(cfg)
             search == [domains |-> doms, atoms |-> sort_atoms_mrv(doms.keys, doms, cfg)]
             end == place(0, [schedule |-> <<>>, used_room_slot |-> {},
                              used_instructor_slot |-> {}, attempts |-> 0, ok |-> FALSE],
                          cfg, limit, search)
             violations == collect_violations(end.schedule, cfg)
         IN [error |-> "",
             result |-> [schedule |-> end.schedule,
                         violations |-> violations,
                         warnings |-> SelectSeq(violations, LAMBDA v : v.severity = "soft"),
                         attempts |-> end.attempts,
                         complete |-> Complete(end.ok, violations)]]

\* C20: every run of generate starts from the one state its two arguments
\* fix, and what it raises and returns (placements, violations, attempts,
\* complete) is the value of a function of (config, step_limit); two runs on the
\* same arguments therefore agree.
C20_Deterministic ==
    /\ pc = "start" => FreshRun
    /\ pc \in {"done", "raised"} =>
            [error |-> error, result |-> result] = generate(config, step_limit)

\* a returned result of a run that backtracked, with two placements and a
\* violation
C20_Witness ==
    /\ ResultReady
    /\ attempts > Len(atoms) + 1
    /\ Len(result.schedule) >= 2
    /\ result.violations # <<>>

\* the placements the active place calls hold: the n outermost calls, each at
\* the candidate its loop is at.  An inner call never moves the loop of an
\* outer one, so this is the placement list as it was when place(n) was entered
FramePlacements(n) ==
    [k \in 1..n |-> Placement(atoms[k], frames[k].candidates[frames[k].pos].slot,
                              frames[k].candidates[frames[k].pos].room_id)]

RoomKeysOf(s) == {RoomKey(s[k].room_id, s[k].slot) : k \in 1..Len(s)}
InstructorKeysOf(s) == {InstructorKey(s[k].atom, s[k].slot) : k \in 1..Len(s)}

\* C24: at every point of the search used_room_slot is the set of
\* (room_id, day, index) of the current placements and used_instructor_slot the
\* set of (instructor_id, day, index) of the current placements; and when
\* place(i) has returned failure the placement list is what it was when
\* place(i) was entered (and so, by the first part, are both indices).
C24_StackDiscipline ==
    /\ used_room_slot = RoomKeysOf(schedule)
    /\ used_instructor_slot = InstructorKeysOf(schedule)
    /\ (pc = "ret" /\ ~retval) => schedule = FramePlacements(Len(frames))

\* place(1) has returned failure after its loop tried and reverted a
\* candidate, and the caller still holds its own placement
C24_Witness ==
    /\ pc = "ret"
    /\ ~retval
    /\ Len(frames) = 1
    /\ Len(schedule) = 1
    /\ attempts >= 2
    /\ attempts <= step_limit

\* the search is under way and no place call has returned success
Searching == pc \in {"call", "loop", "revert", "ret"} /\ ~retval

\* what holds of the placement list in every state
C25_ListShape ==
    /\ \A k \in 1..Len(schedule) : schedule[k].atom = atoms[k]
    /\ Searching =>
          Len(schedule) = IF pc = "loop" THEN Len(frames) - 1 ELSE Len(frames)
    /\ (pc \in {"ret", "collect", "done"} /\ retval) => Len(schedule) = Len(atoms)

\* how the placement list changes in one step
C25_ListStep ==
    /\ retval => schedule' = schedule
    /\ schedule' # schedule =>
          \/ /\ pc = "loop"
             /\ pc' \in {"call", "revert"}
             /\ schedule' # <<>>
             /\ Pop(schedule') = schedule
          \/ /\ pc = "revert"
             /\ schedule # <<>>
             /\ schedule' = Pop(schedule)

C26_OnlyUnwindsAfterLimit ==
    attempts > step_limit => (pc # "call" /\ attempts = step_limit + 1)

\* C28: whenever place(0) has returned success, collect_violations on the
\* schedule reports no hard violation.
C28_SuccessIsHardFeasible ==
    (pc \in {"collect", "done"} /\ retval) =>
        ~hard_exists(collect_violations(schedule, config))

\* C29: in the atom order produced by sort_atoms_mrv, for every course that
\* has both theory and lab atoms the theory atoms come before the lab atoms.
C29_TheoryAtomsFirst ==
    \A i, j \in 1..Len(atoms) :
        (/\ atoms[i].course_id = atoms[j].course_id
         /\ atoms[i].session_type = "theory"
         /\ atoms[j].session_type = "lab") => i < j

\* the course ids of the configurations, in ascending string order
CourseIdOrder == <<"C1", "C2">>
CourseIdRank(id) == CHOOSE i \in 1..Len(CourseIdOrder) : CourseIdOrder[i] = id

\* the atoms are in ascending order of the five-component key of the code
C30_SortedByKey ==
    \A i, j \in 1..Len(atoms) :
        i < j => ~LexLess(AtomKey(config, domains, atoms[j]),
                          AtomKey(config, domains, atoms[i]))

\* C30: two atoms equal on the first five components of the key (required,
\* total weekly hours, lab before theory, domain size, year) appear in
\* ascending course id order, whatever the order of the courses in the
\* configuration.
C30_TieBreakByCourseId ==
    \A i, j \in 1..Len(atoms) :
        (i < j /\ AtomKey(config, domains, atoms[i]) = AtomKey(config, domains, atoms[j]))
            => CourseIdRank(atoms[i].course_id) <= CourseIdRank(atoms[j].course_id)

Done == pc \in {"done", "raised"}

\* the statement the program is at can be executed: the frame, the candidate
\* and the placement it works on exist
CanStep ==
    \/ pc \in {"start", "ret", "collect"}
    \/ pc = "call" /\ Len(frames) <= Len(atoms)
    \/ pc = "loop" /\ frames # <<>> /\ CurPos \in 1..(Len(CurCandidates) + 1)
    \/ pc = "revert" /\ frames # <<>> /\ schedule # <<>>
                     /\ CurPos \in 1..Len(CurCandidates)

\* CanStep is a sufficient condition for a step of Next
C27_CanStepIsEnabled == (CanStep /\ pc # "start") => ENABLED Next

\* where the k-th active place call is in its loop: the candidate position and
\* 0 at the top of the loop, 1 with its candidate handed to the next call,
\* 2 with that call returned, 3 before the revert
PosAt(k) == IF k <= Len(frames) THEN frames[k].pos ELSE 0
PhaseAt(k) ==
    IF k < Len(frames) THEN 1
    ELSE IF k > Len(frames) THEN 0
    ELSE CASE pc = "loop" -> 0
           [] pc = "call" -> 1
           [] pc = "ret" -> 2
           [] pc = "revert" -> 3

\* the progress measure of a run: the stage of generate, then (for the search)
\* whether place(0) has returned and the loop positions from the outermost
\* call inwards, compared as tuples
Rank ==
    IF pc = "start" THEN <<0>>
    ELSE IF Searching
    THEN <<1, IF frames = <<>> /\ pc = "ret" THEN 1 ELSE 0>>
            \o [i \in 1..(2 * Len(atoms)) |->
                    IF i % 2 = 1 THEN PosAt((i + 1) \div 2) ELSE PhaseAt(i \div 2)]
    ELSE IF pc = "ret" THEN <<2, Len(atoms) - Len(frames)>>
    ELSE IF pc = "collect" THEN <<3>>
    ELSE <<4>>

\* the measure ranges over a finite set: at most len(atoms) calls are active
\* and a loop position is at most one past its candidates
RankBounded ==
    /\ Len(frames) <= Len(atoms)
    /\ \A k \in 1..Len(frames) : frames[k].pos \in 1..(Len(frames[k].candidates) + 1)

\* C27: generate terminates on every configuration and every step_limit.
\* Until generate has returned or raised a step can be taken; every step
\* strictly increases a measure that ranges over a finite set, so no run goes
\* on for ever; and a run that stops has produced a ScheduleResult or raised
\* on an invalid configuration.
C27_Terminates ==
    /\ [](RankBounded /\ (Done \/ CanStep))
    /\ [][LexLess(Rank, Rank')]_vars
    /\ []((pc = "done" => result.attempts = attempts /\ result.schedule = schedule)
            /\ (pc = "raised" => validate_config(config) # "ok"))

\* a ScheduleResult has been produced under the default step_limit after a
\* search that backtracked
C27_Witness ==
    /\ pc = "done"
    /\ step_limit = DefaultStepLimit
    /\ attempts > Len(atoms) + 1
    /\ Len(atoms) >= 2

\* ------------------------------------------------- the evaluator on its own
\* collect_violations applied to schedules that no search produced: any list
\* of at most MaxPlacements placements of the courses of a configuration
EvalInstructors ==
    <<Instructor("I1", "Ada", {TimeSlot("Mon", i) : i \in 1..NumSlots},
                 DefaultMaxDailyTheory),
      Instructor("I2", "Bob", {TimeSlot("Mon", i) : i \in 1..NumSlots},
                 DefaultMaxDailyTheory)>>

EvalConfigs ==
    {BeePlanConfig(<<"Mon">>, NumSlots, {},
                   <<Course("C1", 2, TRUE, 1, 0, "I1", "CENG", 0), c2, c3>>,
                   EvalInstructors, BaseRooms) :
        c2 \in {Course("C2", 3, FALSE, 1, 0, "I1", "SENG", 0),
                Course("C2", 3, TRUE, 1, 0, "I2", "CENG", 0)},
        c3 \in {Course("C3", 2, FALSE, 1, 0, "I2", "CENG", 0),
                Course("C3", 4, FALSE, 1, 0, "I1", "CENG", 0)}}

EvalPlacements(cfg) ==
    {Placement(SessionAtom(c, "theory"), TimeSlot("Mon", i), "R1") :
        c \in Range(cfg.courses), i \in 1..NumSlots}

\* one course with theory and lab hours, with and without the preference for
\* consecutive labs, on a two-day grid of EvalSlots slots a day
EvalLabConfigs ==
    {BeePlanConfig(GridDays, EvalSlots, {}, <<c>>, EvalInstructors,
                   <<Room("R1", 30, "theory"), Room("L1", 40, "lab")>>) :
        c \in {Course("C1", 2, TRUE, 1, 2, "I1", "CENG", 0),
               [Course("C1", 2, TRUE, 1, 2, "I1", "CENG", 0)
                    EXCEPT !.prefer_consecutive_lab = FALSE]}}

\* theory and lab placements of the course over both days
WeekPlacements(cfg) ==
    {Placement(SessionAtom(c, t), TimeSlot(d, i), IF t = "lab" THEN "L1" ELSE "R1") :
        c \in Range(cfg.courses), t \in {"theory", "lab"},
        d \in Range(GridDays), i \in 1..NumSlots}

\* lab placements of the course over the slots of one day
LabRunPlacements(cfg) ==
    {Placement(SessionAtom(c, "lab"), TimeSlot("Mon", i), "L1") :
        c \in Range(cfg.courses), i \in 1..EvalSlots}

Lists(P) == UNION {[1..n -> P] : n \in 1..MaxPlacements}

EvalSchedules(cfg) ==
    IF cfg \in EvalConfigs THEN Lists(EvalPlacements(cfg))
    ELSE Lists(WeekPlacements(cfg)) \cup Lists(LabRunPlacements(cfg))

EvalInit ==
    /\ config \in EvalConfigs \cup EvalLabConfigs
    /\ schedule \in EvalSchedules(config)
    /\ pc = "eval"
    /\ step_limit = DefaultStepLimit
    /\ error = ""
    /\ domains = [keys |-> <<>>, pairs |-> <<>>]
    /\ atoms = <<>>
    /\ used_room_slot = {}
    /\ used_instructor_slot = {}
    /\ attempts = 0
    /\ frames = <<>>
    /\ retval = FALSE
    /\ leaf = FALSE
    /\ result = NoResult
    /\ deepest = 0
    /\ other = NoOther
    /\ GreedyIdle
    /\ GuiIdle

\* collect_violations(schedule, ...), its list kept with the schedule it is of
Evaluate ==
    /\ pc \in {"eval", "removed"}
    /\ result' = [NoResult EXCEPT !.schedule = schedule,
                                  !.violations = collect_violations(schedule, config)]
    /\ pc' = "evaluated"
    /\ UNCHANGED <<config, step_limit, error, domains, atoms, schedule, used_room_slot,
                   used_instructor_slot, attempts, frames, retval, leaf, deepest>>
    /\ UNCHANGED <<other, greedyVars, guiVars>>

RemoveAt(s, k) == SubSeq(s, 1, k - 1) \o SubSeq(s, k + 1, Len(s))

\* one placement is taken out of the evaluated schedule
RemovePlacement ==
    /\ pc = "evaluated"
    /\ \E k \in 1..Len(schedule) : schedule' = RemoveAt(schedule, k)
    /\ pc' = "removed"
    /\ UNCHANGED <<config, step_limit, error, domains, atoms, used_room_slot,
                   used_instructor_slot, attempts, frames, retval, leaf, result,
                   deepest>>
    /\ UNCHANGED <<other, greedyVars, guiVars>>

EvalNext == Evaluate \/ RemovePlacement

EvalSpec == EvalInit /\ [][EvalNext]_vars

TwoPlacementKinds ==
    {"INSTRUCTOR_OVERLAP", "YEAR_OVERLAP", "Y3_VS_ELECTIVES", "PROGRAM_ELECTIVE_OVERLAP"}

\* what a list of violations reports of the two-placement kinds: the kind, the
\* slot and the instructor (the course ids listed with it are those of all
\* the placements of the slot, and shrink with any removal)
Reports(violations) ==
    {<<violations[i].type, violations[i].slot, violations[i].instructor_id>> :
        i \in {j \in 1..Len(violations) :
                    /\ violations[j].severity = "hard"
                    /\ violations[j].type \in TwoPlacementKinds}}

\* C22: for every schedule and every placement in it, the evaluation of the
\* schedule without that placement reports no hard violation of a
\* two-placement kind (by kind, slot and instructor) that the evaluation of the
\* schedule with it did not report.
C22_RemovalMonotone ==
    [][pc = "removed" => Reports(result'.violations) \subseteq Reports(result.violations)]_vars

\* a placement has been removed from a schedule of three that was reported
\* for two two-placement kinds
C22_Witness ==
    /\ pc = "removed"
    /\ Len(schedule) = 2
    /\ Cardinality({r[1] : r \in Reports(result.violations)}) >= 2
    /\ Reports(collect_violations(schedule, config)) # Reports(result.violations)

\* ------------------------------------------------ two interleaved invocations
\* All the state of a generate call is local to the call (lines 171-184, the
\* closure place, and a Schedule whose list comes from default_factory).  Two
\* calls in two threads are modelled by the variables of the module holding the
\* locals of the call that is running and `other' those of the call that is
\* suspended; a switch of thread may come between any two steps.
Local ==
    [config |-> config, step_limit |-> step_limit, pc |-> pc, error |-> error,
     domains |-> domains, atoms |-> atoms, schedule |-> schedule,
     used_room_slot |-> used_room_slot, used_instructor_slot |-> used_instructor_slot,
     attempts |-> attempts, frames |-> frames, retval |-> retval, leaf |-> leaf,
     result |-> result, deepest |-> deepest]

Finished(l) == l.pc \in {"done", "raised"}

ConcConfigs ==
    DescendingIdConfigs \cup ZeroCapConfigs
        \cup {c \in BacktrackConfigs :
                c.courses[2].required /\ c.courses[2].weekly_theory_hours = MaxTheory}
        \cup {BeePlanConfig(GridDays, 0, {}, <<BaseCourse>>, <<BaseInstructor>>, BaseRooms)}

ConcInit ==
    /\ config \in ConcConfigs
    /\ step_limit \in StepLimits
    /\ pc = "start"
    /\ error = ""
    /\ domains = [keys |-> <<>>, pairs |-> <<>>]
    /\ atoms = <<>>
    /\ schedule = <<>>
    /\ used_room_slot = {}
    /\ used_instructor_slot = {}
    /\ attempts = 0
    /\ frames = <<>>
    /\ retval = FALSE
    /\ leaf = FALSE
    /\ result = NoResult
    /\ deepest = 0
    /\ \E cfg \in ConcConfigs \ {config} :
            other = [Local EXCEPT !.config = cfg, !.step_limit = DefaultStepLimit]
    /\ GreedyIdle
    /\ GuiIdle

\* mutant of Switch: the placement list is one object for both calls (a
\* mutable default in place of default_factory), so it stays where it is
SwitchSharingPlacements ==
    /\ other # NoOther
    /\ ~Finished(other)
    /\ other' = Local
    /\ UNCHANGED <<greedyVars, guiVars>>
    /\ config' = other.config
    /\ step_limit' = other.step_limit
    /\ pc' = other.pc
    /\ error' = other.error
    /\ domains' = other.domains
    /\ atoms' = other.atoms
    /\ used_room_slot' = other.used_room_slot
    /\ used_instructor_slot' = other.used_instructor_slot
    /\ attempts' = other.attempts
    /\ frames' = other.frames
    /\ retval' = other.retval
    /\ leaf' = other.leaf
    /\ result' = other.result
    /\ deepest' = other.deepest
    /\ UNCHANGED schedule

\* the thread of the other call is scheduled: its locals become the current
\* ones and those of the running call are set aside
Switch ==
    /\ other # NoOther
    /\ ~Finished(other)
    /\ other' = Local
    /\ UNCHANGED <<greedyVars, guiVars>>
    /\ config' = other.config
    /\ step_limit' = other.step_limit
    /\ pc' = other.pc
    /\ error' = other.error
    /\ domains' = other.domains
    /\ atoms' = other.atoms
    /\ schedule' = other.schedule
    /\ used_room_slot' = other.used_room_slot
    /\ used_instructor_slot' = other.used_instructor_slot
    /\ attempts' = other.attempts
    /\ frames' = other.frames
    /\ retval' = other.retval
    /\ leaf' = other.leaf
    /\ result' = other.result
    /\ deepest' = other.deepest

ConcNext ==
    \/ ValidateFails
    \/ Setup
    \/ PlaceEnter
    \/ TryCandidate
    \/ Revert
    \/ Return
    \/ Finish
    \/ Switch

ConcSpec == ConcInit /\ [][ConcNext]_vars

Outcome(l) == [error |-> l.error, result |-> l.result]

\* what holds of the two calls in every state: a call that has finished has
\* raised and returned what it raises and returns when run alone
C21_SameAsAlone ==
    /\ Finished(Local) => Outcome(Local) = generate(config, step_limit)
    /\ Finished(other) => Outcome(other) = generate(other.config, other.step_limit)

\* what holds of every step: it is a step of the running call, which leaves
\* the locals of the suspended call as they are, or a switch, which changes
\* no local of either call
C21_NoInterference ==
    \/ other' = other
    \/ other' = Local /\ Local' = other

\* C21: two generate invocations on distinct configurations whose steps are
\* interleaved arbitrarily each return the result they return when run alone,
\* and no step of one reads or writes the schedule, the occupancy indices or
\* the step counter of the other.
C21_Independent == []C21_SameAsAlone /\ [][C21_NoInterference]_vars

\* both calls have finished, the one that finished first set aside since;
\* they ran on different configurations and each placed two courses
C21_Witness ==
    /\ Finished(Local)
    /\ Finished(other)
    /\ config # other.config
    /\ Len(result.schedule) >= 2
    /\ Len(other.result.schedule) >= 2

\* the order the claim gives the candidates: slot index, then the day by its
\* place in the week, then the room id
WeekOrderKey(pr) == <<pr.slot.index, DayOrdinal(pr.slot.day), StrRank(pr.room_id)>>

\* C31: within place, the candidates of an atom are tried in order of slot
\* index ascending, then day in week order (Mon < Tue < Wed < Thu < Fri), then
\* room id ascending.
C31_CandidatesInWeekOrder ==
    \A k \in 1..Len(frames) :
        \A i, j \in 1..Len(frames[k].candidates) :
            i < j => ~LexLess(WeekOrderKey(frames[k].candidates[j]),
                              WeekOrderKey(frames[k].candidates[i]))

\* the order the code gives them: the day compared as a string
C31_CandidatesInStringOrder ==
    \A k \in 1..Len(frames) :
        \A i, j \in 1..Len(frames[k].candidates) :
            i < j => ~LexLess(CandidateKey(frames[k].candidates[j]),
                              CandidateKey(frames[k].candidates[i]))

\* the candidate set the claim gives an atom, the lab capacity bound taken
\* (withCap) or left out
DomainSet(cfg, a, withCap) ==
    {[slot |-> s, room_id |-> r.id] :
        s \in (GridOf(cfg.common) \ cfg.common.forbidden_slots)
                \cap availability_set(cfg, a.instructor_id),
        r \in {x \in Range(cfg.rooms) :
                /\ x.type = a.session_type
                /\ (withCap /\ a.session_type = "lab") => x.capacity <= LabCapacityCap}}

\* C32: for every atom, compute_initial_domains returns exactly the pairs
\* (slot, room id) with the slot in the grid, not forbidden and in the
\* availability of the atom's instructor, the room of the atom's session type
\* and, for a lab, of capacity at most 40.
C32_DomainIsCandidateSet ==
    pc \notin {"start", "raised"} =>
        \A a \in Range(domains.keys) :
            Range(domains.pairs[a]) = DomainSet(config, a, TRUE)

\* what the code computes: the same set without the capacity bound
C32_DomainIgnoresCapacity ==
    pc \notin {"start", "raised"} =>
        \A a \in Range(domains.keys) :
            Range(domains.pairs[a]) = DomainSet(config, a, FALSE)

\* the evaluation of the schedule is at hand
Evaluated == pc = "evaluated" /\ result.schedule = schedule

Reported(type, cid) ==
    \E i \in 1..Len(result.violations) :
        /\ result.violations[i].type = type
        /\ result.violations[i].course_ids = <<cid>>

\* the slots of a course's placements of one session type, and the earliest of
\* them in (day ordinal, slot index) order
SlotsOf(placements, cid, type) ==
    {placements[i].slot : i \in {j \in 1..Len(placements) :
        /\ placements[j].atom.course_id = cid
        /\ placements[j].atom.session_type = type}}

EarliestSlot(slots) == CHOOSE s \in slots : \A t \in slots : s = t \/ SlotBefore(s, t)

\* C33: collect_violations reports LAB_AFTER_THEORY for a course exactly when
\* the course has a lab placement and either has no theory placement or its
\* earliest lab is not strictly after its earliest theory, in (day ordinal,
\* slot index) order across the week.
C33_LabAfterTheoryByWeekOrder ==
    Evaluated =>
        \A c \in Range(config.courses) :
            LET labs == SlotsOf(schedule, c.id, "lab")
                theories == SlotsOf(schedule, c.id, "theory")
            IN Reported("LAB_AFTER_THEORY", c.id) <=>
                    /\ labs # {}
                    /\ \/ theories = {}
                       \/ ~SlotBefore(EarliestSlot(theories), EarliestSlot(labs))

\* what the code reports: the least slot index of the labs against the least
\* slot index of the theory placements, the day left out
C33_LabAfterTheoryByIndex ==
    Evaluated =>
        \A c \in Range(config.courses) :
            LET labs == {s.index : s \in SlotsOf(schedule, c.id, "lab")}
                theories == {s.index : s \in SlotsOf(schedule, c.id, "theory")}
            IN Reported("LAB_AFTER_THEORY", c.id) <=>
                    /\ labs # {}
                    /\ \/ theories = {}
                       \/ \E l \in labs : \A t \in theories : l <= t

ReportedAt(type, slot) ==
    \E i \in 1..Len(result.violations) :
        /\ result.violations[i].type = type
        /\ result.violations[i].slot = slot

CoursesAt(placements, cfg, slot) ==
    {courses_map(cfg, placements[i].atom.course_id) :
        i \in {j \in 1..Len(placements) : placements[j].slot = slot}}

\* C34: collect_violations reports Y3_VS_ELECTIVES at a slot exactly when the
\* slot holds a placement of a year-3 required course and a placement of an
\* elective course.
C34_Y3RequiredVsElective ==
    Evaluated =>
        \A s \in GridOf(config.common) :
            ReportedAt("Y3_VS_ELECTIVES", s) <=>
                /\ \E c \in CoursesAt(schedule, config, s) : c.year = 3 /\ c.required
                /\ \E c \in CoursesAt(schedule, config, s) : ~c.required

\* what the code reports: a year-3 course of either kind and an elective,
\* which one year-3 elective is by itself
C34_Y3AnyVsElective ==
    Evaluated =>
        \A s \in GridOf(config.common) :
            ReportedAt("Y3_VS_ELECTIVES", s) <=>
                /\ \E c \in CoursesAt(schedule, config, s) : c.year = 3
                /\ \E c \in CoursesAt(schedule, config, s) : ~c.required

\* the slot indices of the lab placements of a course form one contiguous run:
\* in ascending order each is the one before plus one
ContiguousRun(indices) ==
    \A i \in 1..(Len(indices) - 1) : indices[i + 1] = indices[i] + 1

\* C35: collect_violations reports the soft LAB_NON_CONSECUTIVE for a course
\* exactly when the course has prefer_consecutive_lab set and at least two lab
\* placements whose slot indices do not form one contiguous run.
C35_NonConsecutiveLabs ==
    Evaluated =>
        \A c \in Range(config.courses) :
            Reported("LAB_NON_CONSECUTIVE", c.id) <=>
                /\ c.prefer_consecutive_lab
                /\ Len(LabIndices(schedule, c.id)) >= 2
                /\ ~ContiguousRun(LabIndices(schedule, c.id))

\* what the code reports: at least two labs of which no two neighbours in
\* ascending order are consecutive
C35_NoConsecutivePair ==
    Evaluated =>
        \A c \in Range(config.courses) :
            LET indices == LabIndices(schedule, c.id)
            IN Reported("LAB_NON_CONSECUTIVE", c.id) <=>
                    /\ c.prefer_consecutive_lab
                    /\ Len(indices) >= 2
                    /\ \A i \in 1..(Len(indices) - 1) : indices[i + 1] # indices[i] + 1

\* the case of the claim on which the code differs: labs at slots 1, 2 and 4
C35_Case ==
    /\ Evaluated
    /\ \E c \in Range(config.courses) :
        /\ c.prefer_consecutive_lab
        /\ LabIndices(schedule, c.id) = <<1, 2, 4>>
        /\ ~Reported("LAB_NON_CONSECUTIVE", c.id)

\* two distinct placements of the schedule share (room_id, day, index)
RoomDoubleBooked(placements) ==
    \E i, j \in 1..Len(placements) :
        /\ i # j
        /\ placements[i].room_id = placements[j].room_id
        /\ placements[i].slot = placements[j].slot

\* C36: for every schedule in which two distinct placements share
\* (room_id, day, index), collect_violations returns at least one hard
\* violation.
C36_DoubleBookingReported ==
    (Evaluated /\ RoomDoubleBooked(schedule)) => hard_exists(result.violations)

\* what the evaluator does answer for: two placements of one instructor in
\* one slot
C36_InstructorOverlapReported ==
    (Evaluated /\ \E i, j \in 1..Len(schedule) :
                    /\ i # j
                    /\ schedule[i].atom.instructor_id = schedule[j].atom.instructor_id
                    /\ schedule[i].slot = schedule[j].slot)
        => hard_exists(result.violations)

DAYS == <<"Mon", "Tue", "Wed", "Thu", "Fri">>

LastHour == 10

\* bound on weekly_theory_hours and weekly_lab_hours of the courses tried
GreedyHours == 2

\* models/course.py, the fields Scheduler reads
GreedyCourse(code, year, instructor_id, theory, lab) ==
    [code |-> code, year |-> year, instructor_id |-> instructor_id,
     weekly_theory_hours |-> theory, weekly_lab_hours |-> lab]

\* models/room.py, the fields Scheduler reads
GreedyRoom(id, room_type) == [id |-> id, room_type |-> room_type]

\* models/schedule.py: ScheduledItem
ScheduledItem(course_code, course_part, room_id) ==
    [course_code |-> course_code, course_part |-> course_part, room_id |-> room_id]

\* Schedule.place: grid[(year, ts)] = item, ts being <<day, hour_index>>
Schedule_place(g, year, ts, item) ==
    LET key == <<year, ts[1], ts[2]>>
    IN [k \in DOMAIN g \cup {key} |-> IF k = key THEN item ELSE g[k]]

\* Schedule.occupied
Schedule_occupied(g, year, ts) == <<year, ts[1], ts[2]>> \in DOMAIN g

\* Scheduler.available_rooms
available_rooms(sch, course_part) ==
    SelectSeq(sch.rooms,
              LAMBDA r : IF course_part = "lab" THEN r.room_type = "lab"
                         ELSE r.room_type = "classroom")

\* Scheduler.instructor_free: both .get calls fall back to an empty value
instructor_free(sch, course, ts) ==
    LET avail == sch.instructor_avail
        of_ins == IF course.instructor_id \in DOMAIN avail
                  THEN avail[course.instructor_id] ELSE <<>>
        day_ranges == IF ts[1] \in DOMAIN of_ins THEN of_ins[ts[1]] ELSE <<>>
    IN \E i \in 1..Len(day_ranges) :
            day_ranges[i][1] <= ts[2] /\ ts[2] <= day_ranges[i][2]

\* logic/validators.py: validate_friday_exam returns a non-empty list
validate_friday_exam(ts) == ts[1] = "Fri" /\ ts[2] \in {6, 7}

\* the has_theory_prior test of _place_blocks: days are compared as strings
has_theory_prior(g, course, ts) ==
    \E k \in DOMAIN g :
        /\ g[k].course_part = "theory"
        /\ g[k].course_code = course.code
        /\ \/ StrRank(k[2]) < StrRank(ts[1])
           \/ k[2] = ts[1] /\ k[3] < ts[2]

\* _place_blocks, the loop over the rooms at one free timeslot, from room k on.
\* st holds the grid, the local `placed' and whether the method has returned.
RECURSIVE place_rooms(_, _, _, _, _, _, _, _, _, _)
place_rooms(sch, st, year, course, part, hours, prefer_consecutive, ts, rooms, k) ==
    IF k > Len(rooms) THEN st
    ELSE IF part = "lab" /\ ~has_theory_prior(st.grid, course, ts)
    THEN place_rooms(sch, st, year, course, part, hours, prefer_consecutive,
                     ts, rooms, k + 1)
    ELSE LET item == ScheduledItem(course.code, part, rooms[k].id)
             g1 == Schedule_place(st.grid, year, ts, item)
             p1 == st.placed + 1
             ts2 == <<ts[1], ts[2] + 1>>
             second == /\ prefer_consecutive
                       /\ p1 < hours
                       /\ ~Schedule_occupied(g1, year, ts2)
                       /\ instructor_free(sch, course, ts2)
             g2 == IF second THEN Schedule_place(g1, year, ts2, item) ELSE g1
             p2 == IF second THEN p1 + 1 ELSE p1
         IN IF p2 >= hours
            THEN [grid |-> g2, placed |-> p2, returned |-> TRUE]
            ELSE place_rooms(sch, [grid |-> g2, placed |-> p2, returned |-> FALSE],
                             year, course, part, hours, prefer_consecutive,
                             ts, rooms, k + 1)

\* the timeslots _place_blocks walks, in its order
hour_range(prefer_consecutive) ==
    IF prefer_consecutive
    THEN SelectSeq([i \in 1..LastHour |-> i], LAMBDA i : i + 1 <= LastHour)
    ELSE [i \in 1..LastHour |-> i]

block_slots(prefer_consecutive) ==
    Concat([d \in 1..Len(DAYS) |->
              [j \in 1..Len(hour_range(prefer_consecutive)) |->
                   <<DAYS[d], hour_range(prefer_consecutive)[j]>>]])

\* _place_blocks from the i-th timeslot on
RECURSIVE place_slots(_, _, _, _, _, _, _, _, _)
place_slots(sch, st, year, course, part, hours, prefer_consecutive, slots, i) ==
    IF i > Len(slots) THEN st
    ELSE LET ts == slots[i]
         IN IF \/ validate_friday_exam(ts)
               \/ Schedule_occupied(st.grid, year, ts)
               \/ ~instructor_free(sch, course, ts)
            THEN place_slots(sch, st, year, course, part, hours,
                             prefer_consecutive, slots, i + 1)
            ELSE LET r == place_rooms(sch, st, year, course, part, hours,
                                      prefer_consecutive, ts,
                                      available_rooms(sch, part), 1)
                 IN IF r.returned THEN r
                    ELSE place_slots(sch, r, year, course, part, hours,
                                     prefer_consecutive, slots, i + 1)

\* Scheduler._place_blocks: the grid it leaves and the final value of `placed'
place_blocks(sch, g, year, course, part, hours, prefer_consecutive) ==
    place_slots(sch, [grid |-> g, placed |-> 0, returned |-> FALSE], year, course,
                part, hours, prefer_consecutive, block_slots(prefer_consecutive), 1)

\* the courses of one year in the order generate takes them: sorted by
\* (weekly_lab_hours > 0, -weekly_theory_hours) with reverse=True, which
\* keeps courses of equal key in the order of self.courses
year_courses(sch, year) ==
    LET cs == SelectSeq(sch.courses, LAMBDA c : c.year = year)
    IN StableSort(cs, [i \in 1..Len(cs) |->
                        <<IF cs[i].weekly_lab_hours > 0 THEN 0 ELSE 1,
                          cs[i].weekly_theory_hours>>])

\* the _place_blocks calls of generate(years), in order
block_calls(sch, ys) ==
    Concat([y \in 1..Len(ys) |->
        LET cs == year_courses(sch, ys[y])
        IN Concat([c \in 1..Len(cs) |->
              << [year |-> ys[y], course |-> cs[c], part |-> "theory",
                  hours |-> cs[c].weekly_theory_hours, prefer_consecutive |-> FALSE],
                 [year |-> ys[y], course |-> cs[c], part |-> "lab",
                  hours |-> cs[c].weekly_lab_hours, prefer_consecutive |-> TRUE] >>])])

\* ------------------------------------------------ Scheduler.generate: inputs
GreedyAllWeek == [d \in Range(DAYS) |-> << <<1, LastHour>> >>]

\* instructor_avail: both instructors free all week; I1 free on Monday's first
\* two hours only; I2 without an entry
GreedyAvailabilities ==
    { [i \in {"I1", "I2"} |-> GreedyAllWeek],
      [i \in {"I1", "I2"} |->
          IF i = "I1" THEN [d \in {"Mon"} |-> << <<1, 2>> >>] ELSE GreedyAllWeek],
      [i \in {"I1"} |-> GreedyAllWeek] }

GreedyRoomLists ==
    { cls \o labs : cls \in { <<GreedyRoom("R1", "classroom")>>,
                              <<GreedyRoom("R1", "classroom"),
                                GreedyRoom("R2", "classroom")>> },
                    labs \in { <<>>, <<GreedyRoom("L1", "lab")>> } }

GreedyCourseLists ==
    LET As == { GreedyCourse("A", 1, "I1", t, l) :
                    t \in 0..GreedyHours, l \in 0..GreedyHours }
        Bs == { GreedyCourse("B", y, "I2", t, l) :
                    y \in {1, 2}, t \in 0..1, l \in 0..1 }
    IN { <<a>> : a \in As } \cup { <<a, b>> : a \in As, b \in Bs }

GreedyYears == { <<1>>, <<2>>, <<1, 2>>, <<2, 1>> }

\* generate of the BeePlan scheduler has not been called
GenerateIdle ==
    /\ config = <<>>
    /\ step_limit = DefaultStepLimit
    /\ pc = "none"
    /\ error = ""
    /\ domains = [keys |-> <<>>, pairs |-> <<>>]
    /\ atoms = <<>>
    /\ schedule = <<>>
    /\ used_room_slot = {}
    /\ used_instructor_slot = {}
    /\ attempts = 0
    /\ frames = <<>>
    /\ retval = FALSE
    /\ leaf = FALSE
    /\ result = NoResult
    /\ deepest = 0
    /\ other = NoOther

\* a Scheduler has been constructed and generate(years) is about to run
GreedyInit ==
    /\ \E cs \in GreedyCourseLists, rs \in GreedyRoomLists,
          av \in GreedyAvailabilities :
            scheduler = [courses |-> cs, rooms |-> rs, instructor_avail |-> av]
    /\ years \in GreedyYears
    /\ grid = <<>>
    /\ blocks = <<>>
    /\ counted = <<>>
    /\ greedy_pc = "start"
    /\ GenerateIdle
    /\ GuiIdle

generateVars == <<config, step_limit, pc, error, domains, atoms, schedule,
                  used_room_slot, used_instructor_slot, attempts, frames, retval,
                  leaf, result, deepest, other>>

\* generate(years) is entered: schedule = Schedule()
SchedulerGenerate ==
    /\ greedy_pc = "start"
    /\ grid' = <<>>
    /\ blocks' = block_calls(scheduler, years)
    /\ greedy_pc' = "run"
    /\ UNCHANGED <<scheduler, years, counted, generateVars, guiVars>>

\* the next self._place_blocks(...) call of the loops of generate
PlaceBlocks ==
    /\ greedy_pc = "run"
    /\ blocks # <<>>
    /\ LET b == Head(blocks)
           r == place_blocks(scheduler, grid, b.year, b.course, b.part, b.hours,
                             b.prefer_consecutive)
       IN /\ grid' = r.grid
          /\ counted' = Append(counted, [course_code |-> b.course.code,
                                         course_part |-> b.part,
                                         placed |-> r.placed])
    /\ blocks' = Tail(blocks)
    /\ UNCHANGED <<scheduler, years, greedy_pc, generateVars, guiVars>>

\* return schedule
SchedulerReturn ==
    /\ greedy_pc = "run"
    /\ blocks = <<>>
    /\ greedy_pc' = "returned"
    /\ UNCHANGED <<scheduler, years, grid, blocks, counted, generateVars, guiVars>>

GreedyNext == SchedulerGenerate \/ PlaceBlocks \/ SchedulerReturn

GreedySpec == GreedyInit /\ [][GreedyNext]_vars

\* ------------------------------------------------------------------- C39
GridKeys == DOMAIN grid

\* the grid entries of one (course, part)
EntriesOf(code, part) ==
    {k \in GridKeys : grid[k].course_code = code /\ grid[k].course_part = part}

RECURSIVE SumPlaced(_, _, _)
SumPlaced(log, code, part) ==
    IF log = <<>> THEN 0
    ELSE (IF Head(log).course_code = code /\ Head(log).course_part = part
          THEN Head(log).placed ELSE 0) + SumPlaced(Tail(log), code, part)

\* first half of C39: no two grid entries at one timeslot hold the same room
C39_NoSharedRoomAtATimeslot ==
    greedy_pc = "returned" =>
        \A k1, k2 \in GridKeys :
            (k1 # k2 /\ k1[2] = k2[2] /\ k1[3] = k2[3])
                => grid[k1].room_id # grid[k2].room_id

\* second half of C39: each (course, part) has as many grid entries as
\* _place_blocks counted as placed
C39_GridMatchesPlaced ==
    greedy_pc = "returned" =>
        \A i \in 1..Len(counted) :
            Cardinality(EntriesOf(counted[i].course_code, counted[i].course_part))
                = SumPlaced(counted, counted[i].course_code, counted[i].course_part)

\* C39: in the greedy Scheduler, after generate(years) no two grid entries at
\* the same timeslot (of any two years) reference the same room, and each
\* (course, part) has as many grid entries as _place_blocks counted as placed.
C39_RoomsDistinctAndCountsMatch ==
    C39_NoSharedRoomAtATimeslot /\ C39_GridMatchesPlaced

\* what the code does keep: a (course, part) never has more grid entries than
\* _place_blocks counted, and within one year a timeslot holds one item
C39_GridWithinPlaced ==
    greedy_pc = "returned" =>
        \A i \in 1..Len(counted) :
            Cardinality(EntriesOf(counted[i].course_code, counted[i].course_part))
                <= SumPlaced(counted, counted[i].course_code, counted[i].course_part)

\* the case of C39: generate returned a grid that holds two years at one timeslot
C39_Case ==
    /\ greedy_pc = "returned"
    /\ \E k1, k2 \in GridKeys : k1[1] # k2[1] /\ k1[2] = k2[2] /\ k1[3] = k2[3]

\* ===================================================================
\* The window of BEEPLANGUI (gui.py) and its ScheduleAlgorithm (algorithm.py)
\* ===================================================================

\* ScheduleAlgorithm.DAYS, HOURS, MINUTE and the Friday ban, in minutes
WEEKDAYS == <<"Monday", "Tuesday", "Wednesday", "Thursday", "Friday">>

HOURS == <<9, 10, 11, 12, 13, 14, 15, 16>>

MINUTE == 20

FRIDAY_BAN_START == 13 * 60 + 20

FRIDAY_BAN_END == 15 * 60 + 10

\* 17:20, the end of the time window
DayEnd == <<17, 20>>

\* Instructor.max_theory_daily default, and the section limit of a lab room
MaxTheoryDaily == 4

LabSectionLimit == 40

\* Python's None
None == [none |-> TRUE]

\* models.py of BEEPLANGUI
GuiTimeSlot(day, hour) == [day |-> day, hour |-> hour, minute |-> MINUTE]

GuiRoom(id, type, capacity) == [id |-> id, type |-> type, capacity |-> capacity]

GuiInstructor(name, max_theory_daily) ==
    [name |-> name, max_theory_daily |-> max_theory_daily]

\* a Course as loaded: no session assigned
GuiCourse(code, instructor, theory_hours, lab_hours, year, students, type) ==
    [code |-> code, instructor |-> instructor, theory_hours |-> theory_hours,
     lab_hours |-> lab_hours, year |-> year, students |-> students, type |-> type,
     theory_slot |-> None, theory_room |-> None,
     lab_slot |-> None, lab_room |-> None]

\* a ScheduleEntry; its course is held by code, as Course.__eq__ compares it
ScheduleEntry(code, room, time_slot, is_lab, duration_hours) ==
    [course |-> code, room |-> room, time_slot |-> time_slot, is_lab |-> is_lab,
     duration_hours |-> duration_hours]

\* a defaultdict: a key never written reads as the default
DictGet(d, k, dflt) == IF k \in DOMAIN d THEN d[k] ELSE dflt

DictPut(d, k, v) == [x \in DOMAIN d \cup {k} |-> IF x = k THEN v ELSE d[x]]

\* list.remove: the first element equal to x goes
RemoveFirst(s, x) ==
    IF \E i \in 1..Len(s) : s[i] = x
    THEN LET i == CHOOSE j \in 1..Len(s) : s[j] = x /\ \A k \in 1..(j - 1) : s[k] # x
         IN SubSeq(s, 1, i - 1) \o SubSeq(s, i + 1, Len(s))
    ELSE s

\* the Course object of a code in the list of the window
CourseByCode(cs, code) == cs[CHOOSE i \in 1..Len(cs) : cs[i].code = code]

SetCourse(cs, code, c) == [i \in 1..Len(cs) |-> IF cs[i].code = code THEN c ELSE cs[i]]

\* Course.get_course_type_enum
course_type(c) ==
    IF c.type \in {"mandatory", "departmental_elective", "ceng_elective",
                   "seng_elective"}
    THEN c.type ELSE "mandatory"

\* TimeSlot.get_end_time
get_end_time(slot, duration_hours) ==
    LET total == slot.hour * 60 + slot.minute + duration_hours * 60
    IN <<total \div 60, total % 60>>

is_friday_ban_violated(slot, duration_hours) ==
    IF slot.day # "Friday" THEN FALSE
    ELSE LET start_minutes == slot.hour * 60 + slot.minute
             end_minutes == start_minutes + duration_hours * 60
         IN ~(end_minutes <= FRIDAY_BAN_START \/ start_minutes >= FRIDAY_BAN_END)

time_slots_overlap(slot1, duration1, slot2, duration2) ==
    IF slot1.day # slot2.day THEN FALSE
    ELSE LET start1 == slot1.hour * 60 + slot1.minute
             end1 == start1 + duration1 * 60
             start2 == slot2.hour * 60 + slot2.minute
             end2 == start2 + duration2 * 60
         IN ~(end1 <= start2 \/ end2 <= start1)

check_instructor_conflict(alg, course, slot, duration_hours) ==
    LET es == DictGet(alg.instructor_schedule, course.instructor, <<>>)
    IN \E i \in 1..Len(es) :
            time_slots_overlap(slot, duration_hours, es[i].time_slot,
                               es[i].duration_hours)

check_room_conflict(alg, room, slot, duration_hours) ==
    LET es == DictGet(alg.room_schedule, room.id, <<>>)
    IN \E i \in 1..Len(es) :
            time_slots_overlap(slot, duration_hours, es[i].time_slot,
                               es[i].duration_hours)

\* self.instructors is the dict of the instructors by name
check_instructor_daily_load(alg, instructors, course, slot) ==
    IF \A i \in 1..Len(instructors) : instructors[i].name # course.instructor
    THEN FALSE
    ELSE LET last == CHOOSE i \in 1..Len(instructors) :
                        /\ instructors[i].name = course.instructor
                        /\ \A j \in (i + 1)..Len(instructors) :
                                instructors[j].name # course.instructor
             current_load == DictGet(alg.instructor_daily_theory,
                                     <<course.instructor, slot.day>>, 0)
         IN current_load + course.theory_hours <= instructors[last].max_theory_daily

DayIndex(day) ==
    IF \E i \in 1..Len(WEEKDAYS) : WEEKDAYS[i] = day
    THEN (CHOOSE i \in 1..Len(WEEKDAYS) : WEEKDAYS[i] = day) - 1
    ELSE -1

check_lab_sequence(course) ==
    IF course.lab_hours = 0 \/ course.lab_slot = None \/ course.theory_slot = None
    THEN TRUE
    ELSE LET theory_day_idx == DayIndex(course.theory_slot.day)
             lab_day_idx == DayIndex(course.lab_slot.day)
         IN IF theory_day_idx = -1 \/ lab_day_idx = -1 THEN FALSE
            ELSE IF lab_day_idx < theory_day_idx THEN FALSE
            ELSE IF lab_day_idx = theory_day_idx
            THEN course.lab_slot.hour * 60 + course.lab_slot.minute
                    > course.theory_slot.hour * 60 + course.theory_slot.minute
            ELSE TRUE

check_elective_conflicts(alg, cs, course, slot, duration_hours) ==
    \E i \in 1..Len(alg.schedule_entries) :
        LET entry == alg.schedule_entries[i]
            entry_course == CourseByCode(cs, entry.course)
            ct == course_type(course)
            et == course_type(entry_course)
        IN /\ time_slots_overlap(slot, duration_hours, entry.time_slot,
                                 entry.duration_hours)
           /\ \/ course.year = 3 /\ ct = "mandatory" /\ et = "departmental_elective"
              \/ entry_course.year = 3 /\ et = "mandatory"
                    /\ ct = "departmental_elective"
              \/ ct = "ceng_elective" /\ et = "seng_elective"
              \/ ct = "seng_elective" /\ et = "ceng_elective"

check_room_capacity(course, room, is_lab) ==
    IF is_lab /\ course.lab_hours > 0
    THEN IF room.type # "lab" THEN FALSE
         ELSE IF room.capacity > LabSectionLimit THEN FALSE
         ELSE room.capacity >= LabSectionLimit
    ELSE room.capacity >= course.students

EndsAfterWindow(slot, duration_hours) ==
    LET end == get_end_time(slot, duration_hours)
    IN end[1] > DayEnd[1] \/ (end[1] = DayEnd[1] /\ end[2] > DayEnd[2])

can_assign_theory(alg, cs, instructors, course, slot, room) ==
    /\ ~EndsAfterWindow(slot, course.theory_hours)
    /\ ~is_friday_ban_violated(slot, course.theory_hours)
    /\ ~check_instructor_conflict(alg, course, slot, course.theory_hours)
    /\ ~check_room_conflict(alg, room, slot, course.theory_hours)
    /\ check_room_capacity(course, room, FALSE)
    /\ check_instructor_daily_load(alg, instructors, course, slot)
    /\ ~check_elective_conflicts(alg, cs, course, slot, course.theory_hours)

can_assign_lab(alg, cs, course, slot, room) ==
    /\ ~(course.theory_hours > 0 /\ course.theory_slot = None)
    /\ ~EndsAfterWindow(slot, course.lab_hours)
    /\ ~is_friday_ban_violated(slot, course.lab_hours)
    /\ (course.theory_hours > 0 /\ course.theory_slot # None) =>
            /\ DayIndex(slot.day) >= DayIndex(course.theory_slot.day)
            /\ DayIndex(slot.day) = DayIndex(course.theory_slot.day) =>
                    slot.hour * 60 + slot.minute
                        > course.theory_slot.hour * 60 + course.theory_slot.minute
    /\ ~check_instructor_conflict(alg, course, slot, course.lab_hours)
    /\ ~check_room_conflict(alg, room, slot, course.lab_hours)
    /\ check_room_capacity(course, room, TRUE)
    /\ ~check_elective_conflicts(alg, cs, course, slot, course.lab_hours)

add_schedule_entry(alg, course, room, slot, is_lab, duration_hours) ==
    LET entry == ScheduleEntry(course.code, room, slot, is_lab, duration_hours)
        daily_key == <<course.instructor, slot.day>>
    IN [schedule_entries |-> Append(alg.schedule_entries, entry),
        instructor_schedule |->
            DictPut(alg.instructor_schedule, course.instructor,
                    Append(DictGet(alg.instructor_schedule, course.instructor, <<>>),
                           entry)),
        room_schedule |->
            DictPut(alg.room_schedule, room.id,
                    Append(DictGet(alg.room_schedule, room.id, <<>>), entry)),
        instructor_daily_theory |->
            IF is_lab THEN alg.instructor_daily_theory
            ELSE DictPut(alg.instructor_daily_theory, daily_key,
                         DictGet(alg.instructor_daily_theory, daily_key, 0)
                            + duration_hours)]

remove_schedule_entry(alg, cs, entry) ==
    IF \A i \in 1..Len(alg.schedule_entries) : alg.schedule_entries[i] # entry
    THEN alg
    ELSE LET instructor == CourseByCode(cs, entry.course).instructor
             daily_key == <<instructor, entry.time_slot.day>>
         IN [schedule_entries |-> RemoveFirst(alg.schedule_entries, entry),
             instructor_schedule |->
                DictPut(alg.instructor_schedule, instructor,
                        RemoveFirst(DictGet(alg.instructor_schedule, instructor,
                                            <<>>), entry)),
             room_schedule |->
                DictPut(alg.room_schedule, entry.room.id,
                        RemoveFirst(DictGet(alg.room_schedule, entry.room.id, <<>>),
                                    entry)),
             instructor_daily_theory |->
                IF entry.is_lab THEN alg.instructor_daily_theory
                ELSE DictPut(alg.instructor_daily_theory, daily_key,
                             DictGet(alg.instructor_daily_theory, daily_key, 0)
                                - entry.duration_hours)]

\* self.rooms is the dict of the rooms by id; the rooms tried have distinct ids
get_available_rooms(rooms, course, is_lab) ==
    SelectSeq(rooms, LAMBDA room :
        /\ (is_lab => room.type = "lab")
        /\ (~is_lab => room.type # "lab")
        /\ check_room_capacity(course, room, is_lab))

\* the loops of _try_assign_theory and _try_assign_lab go through the days
\* from index first_day on, the hours and the rooms: the k-th (time slot, room)
\* they reach, and how many there are
slot_room(first_day, rooms, k) ==
    LET r == (k - 1) % Len(rooms)
        h == ((k - 1) \div Len(rooms)) % Len(HOURS)
        d == (k - 1) \div (Len(rooms) * Len(HOURS))
    IN [time_slot |-> GuiTimeSlot(WEEKDAYS[first_day + d + 1], HOURS[h + 1]),
        room |-> rooms[r + 1]]

slot_room_count(first_day, rooms) ==
    (Len(WEEKDAYS) - first_day) * Len(HOURS) * Len(rooms)

\* the first k at which the loops of _try_assign_theory find can_assign_theory
\* true, 0 when they end without
RECURSIVE first_theory(_, _, _, _, _, _, _)
first_theory(alg, cs, instructors, course, rooms, k, n) ==
    IF k > n THEN 0
    ELSE IF can_assign_theory(alg, cs, instructors, course,
                              slot_room(0, rooms, k).time_slot,
                              slot_room(0, rooms, k).room)
    THEN k
    ELSE first_theory(alg, cs, instructors, course, rooms, k + 1, n)

\* _try_assign_theory: gs holds the Course objects and the ScheduleAlgorithm
try_assign_theory(gs, instructors, rooms, code) ==
    LET course == CourseByCode(gs.courses, code)
        available == get_available_rooms(rooms, course, FALSE)
        k == first_theory(gs.alg, gs.courses, instructors, course, available, 1,
                          slot_room_count(0, available))
    IN IF k = 0
       THEN [ok |-> FALSE, gs |-> gs]
       ELSE LET cand == slot_room(0, available, k)
                assigned == [course EXCEPT !.theory_slot = cand.time_slot,
                                           !.theory_room = cand.room]
            IN [ok |-> TRUE,
                gs |-> [courses |-> SetCourse(gs.courses, code, assigned),
                        alg |-> add_schedule_entry(gs.alg, assigned, cand.room,
                                    cand.time_slot, FALSE, course.theory_hours)]]

\* the test of _try_assign_lab on a time slot of the day of the theory session
after_theory(course, slot) ==
    (course.theory_slot # None /\ slot.day = course.theory_slot.day) =>
        slot.hour * 60 + slot.minute
            > course.theory_slot.hour * 60 + course.theory_slot.minute

\* the first k at which the loops of _try_assign_lab find can_assign_lab true
RECURSIVE first_lab(_, _, _, _, _, _, _)
first_lab(alg, cs, course, rooms, first_day, k, n) ==
    IF k > n THEN 0
    ELSE IF /\ after_theory(course, slot_room(first_day, rooms, k).time_slot)
            /\ can_assign_lab(alg, cs, course,
                              slot_room(first_day, rooms, k).time_slot,
                              slot_room(first_day, rooms, k).room)
    THEN k
    ELSE first_lab(alg, cs, course, rooms, first_day, k + 1, n)

\* _try_assign_lab
try_assign_lab(gs, rooms, code) ==
    LET course == CourseByCode(gs.courses, code)
        start_day_idx == IF course.theory_slot # None
                         THEN (IF DayIndex(course.theory_slot.day) = -1 THEN 0
                               ELSE DayIndex(course.theory_slot.day))
                         ELSE 0
        available == get_available_rooms(rooms, course, TRUE)
        k == first_lab(gs.alg, gs.courses, course, available, start_day_idx, 1,
                       slot_room_count(start_day_idx, available))
    IN IF course.theory_hours > 0 /\ course.theory_slot = None
       THEN [ok |-> FALSE, gs |-> gs]
       ELSE IF k = 0
       THEN [ok |-> FALSE, gs |-> gs]
       ELSE LET cand == slot_room(start_day_idx, available, k)
                assigned == [course EXCEPT !.lab_slot = cand.time_slot,
                                           !.lab_room = cand.room]
            IN [ok |-> TRUE,
                gs |-> [courses |-> SetCourse(gs.courses, code, assigned),
                        alg |-> add_schedule_entry(gs.alg, assigned, cand.room,
                                    cand.time_slot, TRUE, course.lab_hours)]]

\* the first entry of the course of the kind asked for goes, if there is one
RemoveEntryOf(gs, code, is_lab) ==
    LET es == gs.alg.schedule_entries
        hit(i) == es[i].course = code /\ es[i].is_lab = is_lab
    IN IF \A i \in 1..Len(es) : ~hit(i) THEN gs.alg
       ELSE remove_schedule_entry(gs.alg, gs.courses,
                es[CHOOSE j \in 1..Len(es) : hit(j) /\ \A k \in 1..(j - 1) : ~hit(k)])

unassign_theory(gs, code) ==
    LET course == CourseByCode(gs.courses, code)
    IN IF course.theory_slot # None /\ course.theory_room # None
       THEN [courses |-> SetCourse(gs.courses, code,
                            [course EXCEPT !.theory_slot = None,
                                           !.theory_room = None]),
             alg |-> RemoveEntryOf(gs, code, FALSE)]
       ELSE gs

unassign_lab(gs, code) ==
    LET course == CourseByCode(gs.courses, code)
    IN IF course.lab_slot # None /\ course.lab_room # None
       THEN [courses |-> SetCourse(gs.courses, code,
                            [course EXCEPT !.lab_slot = None, !.lab_room = None]),
             alg |-> RemoveEntryOf(gs, code, TRUE)]
       ELSE gs

unassign_course(gs, code) == unassign_lab(unassign_theory(gs, code), code)

\* _backtrack(courses, index, messages) up to its recursive call
backtrack_body(gs, instructors, rooms, code) ==
    LET c0 == CourseByCode(gs.courses, code)
        t == IF c0.theory_hours > 0 /\ c0.theory_slot = None
             THEN try_assign_theory(gs, instructors, rooms, code)
             ELSE [ok |-> TRUE, gs |-> gs]
        c1 == CourseByCode(t.gs.courses, code)
        l == IF c1.lab_hours > 0 /\ c1.lab_slot = None
             THEN try_assign_lab(t.gs, rooms, code)
             ELSE [ok |-> TRUE, gs |-> t.gs]
        c2 == CourseByCode(l.gs.courses, code)
    IN IF ~t.ok
       THEN [ok |-> FALSE, gs |-> gs, message |-> <<"theory", code>>]
       ELSE IF ~l.ok
       THEN [ok |-> FALSE,
             gs |-> IF c1.theory_slot # None THEN unassign_theory(t.gs, code)
                    ELSE t.gs,
             message |-> <<"lab", code>>]
       ELSE IF c2.lab_hours > 0 /\ c2.theory_hours > 0 /\ ~check_lab_sequence(c2)
       THEN [ok |-> FALSE, gs |-> unassign_course(l.gs, code),
             message |-> <<"lab sequence", code>>]
       ELSE [ok |-> TRUE, gs |-> l.gs, message |-> <<>>]

\* Course.is_scheduled
is_scheduled(c) ==
    LET theory_scheduled == c.theory_slot # None /\ c.theory_room # None
        lab_scheduled == c.lab_slot # None /\ c.lab_room # None
    IN IF c.theory_hours > 0 /\ ~theory_scheduled THEN FALSE
       ELSE IF c.lab_hours > 0 THEN lab_scheduled
       ELSE TRUE

\* validate_schedule: the conflicts, each by its kind and the courses it names
validate_schedule(gs) ==
    LET cs == gs.courses
        es == gs.alg.schedule_entries
        of_course(c) ==
            IF ~is_scheduled(c) THEN << <<"not fully scheduled", c.code>> >>
            ELSE (IF c.theory_slot # None /\ c.theory_room # None
                     /\ is_friday_ban_violated(c.theory_slot, c.theory_hours)
                  THEN << <<"friday ban theory", c.code>> >> ELSE <<>>)
              \o (IF c.lab_slot # None /\ c.lab_room # None
                     /\ is_friday_ban_violated(c.lab_slot, c.lab_hours)
                  THEN << <<"friday ban lab", c.code>> >> ELSE <<>>)
              \o (IF c.lab_hours > 0 /\ c.theory_hours > 0 /\ ~check_lab_sequence(c)
                  THEN << <<"lab sequence", c.code>> >> ELSE <<>>)
        of_pair(i, j) ==
            IF time_slots_overlap(es[i].time_slot, es[i].duration_hours,
                                  es[j].time_slot, es[j].duration_hours)
            THEN (IF CourseByCode(cs, es[i].course).instructor
                        = CourseByCode(cs, es[j].course).instructor
                  THEN << <<"instructor double-booking", es[i].course, es[j].course>> >>
                  ELSE <<>>)
              \o (IF es[i].room.id = es[j].room.id
                  THEN << <<"room double-booking", es[i].course, es[j].course>> >>
                  ELSE <<>>)
            ELSE <<>>
    IN Concat([k \in 1..Len(cs) |-> of_course(cs[k])])
        \o Concat([i \in 1..Len(es) |->
                Concat([d \in 1..(Len(es) - i) |-> of_pair(i, i + d)])])

\* the order of the strings that are course codes and types here
GuiStrOrder == <<"C1", "C2">>

GuiStrRank(s) == CHOOSE i \in 1..Len(GuiStrOrder) : GuiStrOrder[i] = s

\* line 298: self.courses.sort(key=(year, code, 1 if type == 'lab' else 0))
sort_courses(cs) ==
    StableSort(cs, [i \in 1..Len(cs) |->
                        <<cs[i].year, GuiStrRank(cs[i].code),
                          IF cs[i].type = "lab" THEN 1 ELSE 0>>])

type_priority(type) ==
    CASE type = "mandatory" -> 0
      [] type = "ceng_elective" -> 1
      [] type = "seng_elective" -> 2
      [] type = "departmental_elective" -> 3
      [] OTHER -> 99

\* course_priority; False sorts before True
course_priority(c) ==
    <<type_priority(c.type), c.year, IF c.lab_hours > 0 THEN 1 ELSE 0,
      -(c.theory_hours + c.lab_hours), GuiStrRank(c.code)>>

\* courses_to_schedule, by code
courses_to_schedule(cs) ==
    LET sorted == StableSort(cs, [i \in 1..Len(cs) |-> course_priority(cs[i])])
    IN [i \in 1..Len(sorted) |-> sorted[i].code]

\* ------------------------------------------------- the window: inputs, actions
\* bound on theory_hours of the courses tried
GuiHours == 2

\* bound on the number of times Generate Schedule is clicked
MaxClicks == 2

GuiCourseLists ==
    LET C1s == { GuiCourse("C1", "I1", t, l, y, s, "mandatory") :
                    t \in 0..GuiHours, l \in {0, 2}, y \in {1, 3}, s \in {30, 50} }
        C2s == { GuiCourse("C2", i, t, l, 3, 30, ty) :
                    i \in {"I1", "I2"}, t \in 1..2, l \in {0, 1},
                    ty \in {"mandatory", "departmental_elective"} }
    IN { <<a>> : a \in C1s } \cup { <<a, b>> : a \in C1s, b \in C2s }
        \cup { <<b, a>> : a \in C1s, b \in C2s }

GuiRoomLists ==
    { <<GuiRoom("R1", "classroom", 30)>>,
      <<GuiRoom("R1", "classroom", 30), GuiRoom("L1", "lab", LabSectionLimit)>>,
      <<GuiRoom("R1", "classroom", 30), GuiRoom("L1", "lab", 60)>> }

GuiInstructorLists ==
    { <<GuiInstructor("I1", MaxTheoryDaily), GuiInstructor("I2", MaxTheoryDaily)>>,
      <<GuiInstructor("I1", 1), GuiInstructor("I2", MaxTheoryDaily)>>,
      <<GuiInstructor("I1", MaxTheoryDaily)>> }

\* BeePlanMainWindow.__init__ on the loaded data
GuiInit ==
    /\ gui_courses \in GuiCourseLists
    /\ gui_instructors \in GuiInstructorLists
    /\ gui_rooms \in GuiRoomLists
    /\ algorithm = NoAlgorithm
    /\ conflicts = <<>>
    /\ gen = NoGen
    /\ clicks = 0
    /\ GenerateIdle
    /\ GreedyIdle

\* BeePlanMainWindow.generate_schedule up to the first _backtrack call: a fresh
\* ScheduleAlgorithm over self.courses, whose generate_schedule sorts that
\* list in place, resets its own four collections and orders the courses
GenerateSchedule ==
    /\ gen = NoGen
    /\ clicks < MaxClicks
    /\ clicks' = clicks + 1
    /\ algorithm' = NoAlgorithm
    /\ gui_courses' = sort_courses(gui_courses)
    /\ gen' = [pc |-> "backtrack",
               order |-> courses_to_schedule(sort_courses(gui_courses)),
               index |-> 0, messages |-> <<>>, success |-> FALSE]
    /\ UNCHANGED <<gui_instructors, gui_rooms, conflicts, generateVars, greedyVars>>

\* one _backtrack call up to its recursive call; a True at the end of the
\* list is returned through every caller
Backtrack ==
    /\ gen.pc = "backtrack"
    /\ IF gen.index >= Len(gen.order)
       THEN /\ gen' = [gen EXCEPT !.pc = "validate", !.success = TRUE]
            /\ UNCHANGED <<gui_courses, algorithm>>
       ELSE LET r == backtrack_body([courses |-> gui_courses, alg |-> algorithm],
                                    gui_instructors, gui_rooms,
                                    gen.order[gen.index + 1])
            IN /\ gui_courses' = r.gs.courses
               /\ algorithm' = r.gs.alg
               /\ gen' = IF r.ok THEN [gen EXCEPT !.index = gen.index + 1]
                         ELSE [gen EXCEPT !.pc = "unwind", !.index = gen.index - 1,
                                          !.messages = Append(gen.messages, r.message)]
    /\ UNCHANGED <<gui_instructors, gui_rooms, conflicts, clicks, generateVars,
                   greedyVars>>

\* the caller of a _backtrack that returned False: _unassign_course, return False
Unwind ==
    /\ gen.pc = "unwind"
    /\ IF gen.index < 0
       THEN /\ gen' = [gen EXCEPT !.pc = "validate", !.success = FALSE]
            /\ UNCHANGED <<gui_courses, algorithm>>
       ELSE LET gs == unassign_course([courses |-> gui_courses, alg |-> algorithm],
                                      gen.order[gen.index + 1])
            IN /\ gui_courses' = gs.courses
               /\ algorithm' = gs.alg
               /\ gen' = [gen EXCEPT !.index = gen.index - 1]
    /\ UNCHANGED <<gui_instructors, gui_rooms, conflicts, clicks, generateVars,
                   greedyVars>>

\* the rest of BeePlanMainWindow.generate_schedule
Validate ==
    /\ gen.pc = "validate"
    /\ conflicts' = IF gen.success
                    THEN validate_schedule([courses |-> gui_courses,
                                            alg |-> algorithm])
                    ELSE <<>>
    /\ gen' = NoGen
    /\ UNCHANGED <<gui_courses, gui_instructors, gui_rooms, algorithm, clicks,
                   generateVars, greedyVars>>

GuiNext == GenerateSchedule \/ Backtrack \/ Unwind \/ Validate

GuiSpec == GuiInit /\ [][GuiNext]_vars

\* ------------------------------------------------------------------- C38
\* schedule_entries holds an entry of the kind for the course
HasEntry(code, is_lab) ==
    \E i \in 1..Len(algorithm.schedule_entries) :
        /\ algorithm.schedule_entries[i].course = code
        /\ algorithm.schedule_entries[i].is_lab = is_lab

SlotsMatchEntries ==
    \A i \in 1..Len(gui_courses) :
        /\ gui_courses[i].theory_slot # None <=> HasEntry(gui_courses[i].code, FALSE)
        /\ gui_courses[i].lab_slot # None <=> HasEntry(gui_courses[i].code, TRUE)

\* some generate_schedule call was made and none is running
Generated == gen = NoGen /\ clicks > 0

\* C38: after any sequence of generate_schedule calls over the same Course
\* objects, each through a fresh ScheduleAlgorithm, a course has theory_slot
\* (lab_slot) set if and only if schedule_entries holds a theory (lab) entry
\* for it.
C38_SlotsMatchEntries == Generated => SlotsMatchEntries

\* what the code keeps: the equivalence holds during and after the first call
C38_FirstCallSlotsMatchEntries == clicks <= 1 => SlotsMatchEntries

\* and after every call each entry is of a session its course holds
C38_EntriesHaveSlots ==
    \A i \in 1..Len(gui_courses) :
        /\ HasEntry(gui_courses[i].code, FALSE) => gui_courses[i].theory_slot # None
        /\ HasEntry(gui_courses[i].code, TRUE) => gui_courses[i].lab_slot # None

\* the case of C38: a second call returned over courses the first had scheduled
C38_Case ==
    /\ Generated
    /\ clicks = 2
    /\ \E i \in 1..Len(gui_courses) : gui_courses[i].theory_slot # None

==============================================================================
